---- MODULE Spec2Model ----
(***************************************************************************)
(* GoManus: the bounded conversation memory (internal/schema), the MCP     *)
(* client manager and its stdio session (internal/mcp), and the agent run  *)
(* loop (internal/agent), as state machines.                               *)
(*                                                                         *)
(* Four specifications share the module:                                   *)
(*   SpecMemory  Memory.AddMessage / Memory.AddMessages                    *)
(*   SpecMgr     MCPClients: Connect, Disconnect, InitializeFromConfig     *)
(*   SpecStdio   StdioSession.sendRequest under concurrent callers         *)
(*   SpecRun     Agent.Run and Manus.Run                                   *)
(* Each one leaves the variables of the others at their initial values.    *)
(***************************************************************************)
EXTENDS Integers, Sequences, FiniteSets, TLC

VARIABLES
  \* ---- schema.Memory
  Messages,      \* Memory.Messages
  MaxMessages,   \* Memory.MaxMessages
  appended,      \* history: every message ever passed to AddMessage(s), in order
  \* ---- mcp.MCPClients
  sessions,      \* MCPClients.sessions: server id -> session object
  tools,         \* MCPClients.tools: local name -> MCPTool
  nextSession,   \* the next session object to be created
  closeCalls,    \* session object -> number of Close() calls made on it
  discovered,    \* server id -> the tools its current session listed
  ctxCancelled,  \* the ctx handed to InitializeFromConfig is done
  initPc,        \* InitializeFromConfig: "idle", "loop" or "done"
  initTodo,      \* servers of mcpConfig.Servers the range loop has not visited
  initLog,       \* history of the running InitializeFromConfig call
  badSessions,   \* session objects whose shutdown goes wrong when Close is called
  lastOp,        \* the last manager operation and what it returned
  \* ---- mcp.StdioSession and the goroutines that call it
  stMu,          \* StdioSession.mu: the caller holding it, or 0
  stClosed,      \* StdioSession.closed
  childUp,       \* the child process runs (reads stdin, may write stdout)
  childInbox,    \* ids of the requests the child has read and not answered
  stdoutPipe,    \* response lines the child wrote and nobody has read, by id
  readers,       \* reader goroutines blocked in scanner.Scan, by request id
  doneChan,      \* request id -> what its reader goroutine delivered
  callPc,        \* caller -> "idle" or "waiting" (inside sendRequest's select)
  callReq,       \* caller -> id of the request it sent
  nextReq,       \* the next value of generateRequestID
  returned,      \* history: the result of every finished call
  shutdownLog,   \* history: what was done to the child's stdin and process
  cmdCtx,        \* the context handed to Initialize: "live" or "done"
  closeResults,  \* history: what each Close call returned
  \* ---- agent.Agent / agent.Manus and one call of Run
  agentKind,     \* whose Run is called: "Agent" or "Manus"
  MaxSteps,      \* Agent.MaxSteps
  DuplicateThreshold, \* Agent.DuplicateThreshold
  CurrentStep,   \* Agent.CurrentStep
  State,         \* Agent.State
  agentCtx,      \* Agent.ctx: "nil", "live" or "done"
  registry,      \* Agent.AvailableTools: tool name -> tool
  runPc,         \* where Run is: "idle", "loop", "deferState", "deferCleanup", "done";
                 \* "refused" once a second Run call has returned
  runResult,     \* what Run returns
  llmCalls,      \* number of LLM.GenerateResponse calls made by Run or ProcessMessage
  warned,        \* the step-limit warning was logged
  triggers,      \* history: which of completion, duplicate, model failure,
                 \* transport failure of a tool call occurred
  cancelInFlight, \* history: ctx was cancelled while a CallTool was in flight
  \* ---- one call of mcp.MCPTool.Execute by executeTool
  execParts,     \* CallToolResult.Content the session returned
  execOutput,    \* what Execute returned: Nil before the call, then Some(text)
  MaxObserve,    \* ToolCallAgent.MaxObserve
  observed,      \* ToolResult.Result of executeTool: Nil before, then Some(text)
  \* ---- goroutines calling one mcp.MCPClients
  mu,            \* MCPClients.mu: its writer (0 for none) and its readers
  callers,       \* per goroutine: the method it is in and where it is in it
  \* ---- one mcp.SSESession
  sse,           \* its URL parses, how its last Initialize ended, Close returned, requests sent
  \* ---- calls of the agent's API besides Run
  api,           \* the last call of the agent's API and whether it returned an error
  \* ---- cmd: runDirect and its signal-handling goroutine
  sig,           \* signals delivered, the handler goroutine, the run context, how the process ended
  \* ---- mcp.MCPClients read by GetTools / GetTool while it is written
  snap           \* one manager's lock and catalog, a goroutine connecting and disconnecting, a goroutine reading

memVars == <<Messages, MaxMessages, appended>>
mapVars == <<sessions, tools, nextSession, closeCalls, discovered>>
mgrVars == <<mapVars, ctxCancelled, initPc, initTodo, initLog, lastOp, badSessions>>

stdioVars == <<stMu, stClosed, childUp, childInbox, stdoutPipe, readers, doneChan,
               callPc, callReq, nextReq, returned, shutdownLog, cmdCtx, closeResults>>

runVars == <<agentKind, MaxSteps, DuplicateThreshold, CurrentStep, State, agentCtx,
             registry, runPc, runResult, llmCalls, warned, triggers, cancelInFlight>>

execVars == <<execParts, execOutput, MaxObserve, observed>>

lockVars == <<mu, callers>>

vars == <<memVars, mgrVars, stdioVars, runVars, execVars, lockVars, sse, api, sig, snap>>

(***************************************************************************)
(* Bounds of the model.                                                    *)
(***************************************************************************)
MaxCap == 3      \* largest capacity handed to NewMemory
MaxExtra == 3    \* messages appended beyond the capacity
MaxBatch == 3    \* longest slice handed to AddMessages
MaxSessions == 2 \* session objects created in one behaviour
NumCallers == 2  \* goroutines calling one stdio session
MaxRequests == 3 \* requests sent on one stdio session
MaxStepsBound == 2 \* largest Agent.MaxSteps
MaxThreshold == 3  \* largest Agent.DuplicateThreshold
MaxToolCalls == 2  \* tool calls the model returns in one run
MaxCloses == 2     \* Close calls on one stdio session
MaxParts == 3      \* content parts of one tool result
MaxObserveBound == 3 \* largest ToolCallAgent.MaxObserve
NumGoroutines == 2   \* goroutines calling one MCPClients
MaxTraffic == 4      \* HTTP requests sent by one SSE session

(***************************************************************************)
(* schema.Memory                                                           *)
(***************************************************************************)
DefaultMaxMessages == 100

\* NewMemory: a capacity <= 0 is replaced by the default.
NewMemory(maxMessages) ==
  IF maxMessages <= 0 THEN DefaultMaxMessages ELSE maxMessages

\* s[len(s)-n:], the last n elements of s (n <= Len(s)).
Tail_n(s, n) == SubSeq(s, Len(s) - n + 1, Len(s))

\* A faulty trim that keeps the first max messages instead of the last.
TrimKeepOldest(msgs, max) ==
  IF Len(msgs) > max THEN SubSeq(msgs, 1, max) ELSE msgs

\* The trim both AddMessage and AddMessages apply after the append.
Trim(msgs, max) ==
  IF Len(msgs) > max THEN Tail_n(msgs, max) ELSE msgs

\* Memory.AddMessage as a function of the memory.
AddMessageOp(msgs, max, m) == Trim(Append(msgs, m), max)

\* Memory.AddMessages as a function of the memory.
AddMessagesOp(msgs, max, ms) == Trim(msgs \o ms, max)

\* Memory.GetRecentMessages(n).
GetRecentMessages(msgs, n) ==
  LET k == IF n <= 0 \/ n > Len(msgs) THEN Len(msgs) ELSE n
  IN  Tail_n(msgs, k)

\* The k-th message ever appended in the memory specification.
NumberedMessage(k) == [role |-> "user", content |-> k]

\* The memory of a freshly constructed agent: NewAgent calls NewMemory(100).
MemRest ==
  /\ MaxMessages = NewMemory(DefaultMaxMessages)
  /\ Messages = <<>>
  /\ appended = <<>>

MemInit ==
  /\ \E n \in (0 - 1)..MaxCap : MaxMessages = NewMemory(n)
  /\ Messages = <<>>
  /\ appended = <<>>

AddMessage ==
  /\ Len(appended) < MaxMessages + MaxExtra
  /\ LET m == NumberedMessage(Len(appended) + 1)
     IN  /\ Messages' = AddMessageOp(Messages, MaxMessages, m)
         /\ appended' = Append(appended, m)
  /\ UNCHANGED <<MaxMessages, mgrVars, stdioVars, runVars, execVars, lockVars, sse, api, sig, snap>>

AddMessages ==
  \E k \in 0..MaxBatch :
    /\ Len(appended) + k <= MaxMessages + MaxExtra
    /\ LET ms == [i \in 1..k |-> NumberedMessage(Len(appended) + i)]
       IN  /\ Messages' = AddMessagesOp(Messages, MaxMessages, ms)
           /\ appended' = appended \o ms
    /\ UNCHANGED <<MaxMessages, mgrVars, stdioVars, runVars, execVars, lockVars, sse, api, sig, snap>>

MemNext == AddMessage \/ AddMessages

(***************************************************************************)
(* mcp.MCPClients: the manager of sessions and tool adapters               *)
(***************************************************************************)
NameLimit == 64

\* A string of n characters "p".
RECURSIVE Pad(_)
Pad(n) == IF n = 0 THEN "" ELSE "p" \o Pad(n - 1)

\* Two tool names that agree on their first 58 characters: with a one-letter
\* server id their local names agree on the first NameLimit characters.
LongName1 == Pad(NameLimit - 6) \o "1"
LongName2 == Pad(NameLimit - 6) \o "2"

ServerIDs == {"A", "B", "A_x"}

\* What a server may answer to tools/list (Tool.Name of each entry, in order).
Listings ==
  { <<>>, <<"echo">>, <<"echo", "x_echo">>, <<LongName1, LongName2>> }

\* The Type and the URL / Command of one entry of mcpConfig.Servers.
ServerConfigs ==
  { [type |-> "stdio", addr |-> "cmd"], [type |-> "sse", addr |-> "url"],
    [type |-> "stdio", addr |-> ""],    [type |-> "sse", addr |-> ""],
    [type |-> "other", addr |-> "cmd"] }

\* How a connection attempt goes: the session's Initialize fails, its
\* ListTools fails, or both succeed.
Outcomes == {"initFail", "listFail", "ok"}

\* The ways one connection attempt can go: an outcome, and for a successful
\* one the tools the server lists.
Attempts ==
  {[outcome |-> o, listing |-> <<>>] : o \in Outcomes \ {"ok"}}
    \cup {[outcome |-> "ok", listing |-> l] : l \in Listings}

\* A sanitizer that never truncates.
SanitizeNoLimit(name) == name

\* sanitizeToolName: cut to NameLimit bytes.
sanitizeToolName(name) ==
  IF Len(name) > NameLimit THEN SubSeq(name, 1, NameLimit) ELSE name

\* A namespacing that forgets the server id.
LocalNameNoServer(serverID, name) == sanitizeToolName("mcp_" \o name)

\* fmt.Sprintf("mcp_%s_%s", serverID, tool.Name), sanitized.
LocalName(serverID, name) ==
  sanitizeToolName("mcp_" \o serverID \o "_" \o name)

\* f with key k bound to v (a Go map assignment m[k] = v).
MapPut(f, k, v) == [x \in DOMAIN f \cup {k} |-> IF x = k THEN v ELSE f[x]]

\* f without the keys outside keep.
MapKeep(f, keep) == [x \in DOMAIN f \cap keep |-> f[x]]

\* NewMCPTool: the adapter of one listed tool.
NewMCPTool(toolName, session, serverID, originalName) ==
  [name |-> toolName, session |-> session, serverID |-> serverID,
   originalName |-> originalName]

\* loadToolsLocked after a successful ListTools: one m.tools[toolName] = mcpTool
\* per listed tool, in listing order.
RECURSIVE loadToolsLocked(_, _, _, _)
loadToolsLocked(tl, serverID, session, listing) ==
  IF listing = <<>> THEN tl
  ELSE LET toolName == LocalName(serverID, Head(listing))
       IN  loadToolsLocked(
             MapPut(tl, toolName, NewMCPTool(toolName, session, serverID, Head(listing))),
             serverID, session, Tail(listing))

\* A removal that drops every adapter, whatever its server.
RemoveAllTools(tl, serverID) == MapKeep(tl, {})

\* disconnectLocked's loop: delete every adapter whose serverID is serverID.
RemoveToolsOf(tl, serverID) ==
  MapKeep(tl, {n \in DOMAIN tl : tl[n].serverID # serverID})

\* The manager's maps as one value.
MgrState == [sessions |-> sessions, tools |-> tools,
             nextSession |-> nextSession, closeCalls |-> closeCalls,
             discovered |-> discovered, err |-> FALSE]

\* session.Close() on session object s.
CloseSession(cc, s) == [cc EXCEPT ![s] = @ + 1]

\* The removal of one server: its adapters, its session (closed), its entry.
DropServer(st, serverID) ==
  [st EXCEPT !.tools = RemoveToolsOf(st.tools, serverID),
             !.closeCalls = CloseSession(st.closeCalls, st.sessions[serverID]),
             !.sessions = MapKeep(st.sessions, DOMAIN st.sessions \ {serverID}),
             !.discovered = MapKeep(st.discovered, DOMAIN st.discovered \ {serverID}),
             !.err = FALSE]

\* A disconnect that reports an unknown id as an error.
DisconnectStrict(st, serverID) ==
  IF serverID \notin DOMAIN st.sessions THEN [st EXCEPT !.err = TRUE]
  ELSE DropServer(st, serverID)

\* disconnectLocked: no session, no effect; else remove the server's adapters,
\* close the session and delete it. It returns nil on both paths.
disconnectLocked(st, serverID) ==
  IF serverID \notin DOMAIN st.sessions THEN [st EXCEPT !.err = FALSE]
  ELSE DropServer(st, serverID)

\* The server id ConnectSSE / ConnectStdio file the session under.
EffectiveID(serverID, addr) == IF serverID = "" THEN addr ELSE serverID

\* A connect that leaves an existing session of the identity in place.
KeepExisting(st, id) == st

\* The start of ConnectSSE / ConnectStdio: an existing session of the
\* identity is disconnected first.
ReplaceExisting(st, id) ==
  IF id \in DOMAIN st.sessions THEN disconnectLocked(st, id) ELSE st

\* A failed discovery that returns the error and leaves the session as it is.
NoRollBack(st, id, new) == [st EXCEPT !.err = TRUE]

\* loadToolsLocked failed (ListTools returned an error, before any adapter
\* was added): session.Close(), delete(m.sessions, serverID), the error.
RollBack(st, id, new) ==
  [st EXCEPT !.closeCalls = CloseSession(st.closeCalls, new),
             !.sessions = MapKeep(st.sessions, DOMAIN st.sessions \ {id}),
             !.err = TRUE]

\* ConnectSSE and ConnectStdio (they differ in the session type only):
\* the manager's maps after the call.
ConnectState(st, serverID, addr, outcome, listing) ==
  LET id == EffectiveID(serverID, addr)
      st1 == ReplaceExisting(st, id)
      new == st1.nextSession
      st2 == [st1 EXCEPT !.nextSession = new + 1,
                         !.closeCalls = MapPut(st1.closeCalls, new, 0),
                         !.sessions = MapPut(st1.sessions, id, new)]
  IN  CASE outcome = "initFail" -> [st1 EXCEPT !.err = TRUE]
        [] outcome = "listFail" -> RollBack(st2, id, new)
        [] OTHER ->
             [st2 EXCEPT !.tools = loadToolsLocked(st2.tools, id, new, listing),
                         !.discovered = MapPut(st2.discovered, id, listing),
                         !.err = FALSE]

\* MCPClients.Close: disconnectLocked for every key of the sessions map.
RECURSIVE CloseAll(_, _)
CloseAll(st, ids) ==
  IF ids = {} THEN st
  ELSE LET id == CHOOSE x \in ids : TRUE
       IN  CloseAll(disconnectLocked(st, id), ids \ {id})

\* MCPClients.Close: errs stays empty because disconnectLocked returns nil.
CloseState(st) ==
  LET done == CloseAll(st, DOMAIN st.sessions)
  IN  [done EXCEPT !.err = FALSE]

SetMaps(st) ==
  /\ sessions' = st.sessions
  /\ tools' = st.tools
  /\ nextSession' = st.nextSession
  /\ closeCalls' = st.closeCalls
  /\ discovered' = st.discovered

EmptyMap == [x \in {} |-> 0]

\* What lastOp records of a call: its name, its server id, whether it
\* returned an error, and how many adapters it removed from the tools map.
OpRecord(op, id, st) ==
  [op |-> op, id |-> id, err |-> st.err,
   removed |-> Cardinality(DOMAIN tools \ DOMAIN st.tools)]

NoOp == [op |-> "none", id |-> "", err |-> FALSE, removed |-> 0]
NoLog == [enabled |-> TRUE, declared |-> {}, attempted |-> {}, failed |-> {},
          before |-> {}, result |-> "none"]

\* NewMCPClients, and no InitializeFromConfig call under way.
MgrRest ==
  /\ sessions = EmptyMap
  /\ tools = EmptyMap
  /\ nextSession = 1
  /\ closeCalls = EmptyMap
  /\ discovered = EmptyMap
  /\ ctxCancelled = FALSE
  /\ initPc = "idle"
  /\ initTodo = {}
  /\ initLog = NoLog
  /\ lastOp = NoOp
  /\ badSessions = {}

\* The caller of the manager is sequential: no other call runs while
\* InitializeFromConfig does.
MgrFree == initPc = "idle"

\* The command and the URL a direct caller connects with.
StdioCommand == "A"
SSEURL == "B"

ConnectStdio ==
  \E serverID \in ServerIDs \cup {""}, a \in Attempts :
    /\ MgrFree
    /\ nextSession <= MaxSessions
    /\ LET st == ConnectState(MgrState, serverID, StdioCommand, a.outcome, a.listing)
       IN  /\ SetMaps(st)
           /\ lastOp' = OpRecord("ConnectStdio", EffectiveID(serverID, StdioCommand), st)
    /\ UNCHANGED <<ctxCancelled, initPc, initTodo, initLog, badSessions, memVars, stdioVars, runVars, execVars, lockVars, sse, api, sig, snap>>

ConnectSSE ==
  \E serverID \in ServerIDs \cup {""}, a \in Attempts :
    /\ MgrFree
    /\ nextSession <= MaxSessions
    /\ LET st == ConnectState(MgrState, serverID, SSEURL, a.outcome, a.listing)
       IN  /\ SetMaps(st)
           /\ lastOp' = OpRecord("ConnectSSE", EffectiveID(serverID, SSEURL), st)
    /\ UNCHANGED <<ctxCancelled, initPc, initTodo, initLog, badSessions, memVars, stdioVars, runVars, execVars, lockVars, sse, api, sig, snap>>

Disconnect ==
  \E serverID \in ServerIDs :
    /\ MgrFree
    /\ LET st == disconnectLocked(MgrState, serverID)
       IN  /\ SetMaps(st)
           /\ lastOp' = OpRecord("Disconnect", serverID, st)
    /\ UNCHANGED <<ctxCancelled, initPc, initTodo, initLog, badSessions, memVars, stdioVars, runVars, execVars, lockVars, sse, api, sig, snap>>

Close ==
  /\ MgrFree
  /\ LET st == CloseState(MgrState)
     IN  /\ SetMaps(st)
         /\ lastOp' = OpRecord("Close", "", st)
  /\ UNCHANGED <<ctxCancelled, initPc, initTodo, initLog, badSessions, memVars, stdioVars, runVars, execVars, lockVars, sse, api, sig, snap>>

\* The caller cancels ctx. No code reads ctx once Run has left its loop or
\* once the agent context is done.
CancelCtx ==
  /\ ~ctxCancelled
  /\ runPc \in {"idle", "loop"}
  /\ agentCtx # "done"
  /\ ctxCancelled' = TRUE
  /\ UNCHANGED <<mapVars, initPc, initTodo, initLog, lastOp, badSessions, memVars, stdioVars, runVars, execVars, lockVars, sse, api, sig, snap>>

\* InitializeFromConfig up to its range loop: the Enabled test and the first
\* ctx test.
InitBegin ==
  \E enabled \in BOOLEAN, declared \in SUBSET ServerIDs :
    LET log == [NoLog EXCEPT !.enabled = enabled, !.declared = declared,
                             !.before = DOMAIN sessions]
    IN  /\ MgrFree
        /\ IF ~enabled
             THEN /\ initPc' = "done"
                  /\ initLog' = [log EXCEPT !.result = "nil"]
                  /\ initTodo' = {}
           ELSE IF ctxCancelled
             THEN /\ initPc' = "done"
                  /\ initLog' = [log EXCEPT !.result = "cancelled"]
                  /\ initTodo' = {}
           ELSE IF declared = {}
             THEN /\ initPc' = "done"
                  /\ initLog' = [log EXCEPT !.result = "nil"]
                  /\ initTodo' = {}
           ELSE /\ initPc' = "loop"
                /\ initLog' = log
                /\ initTodo' = declared
        /\ lastOp' = [NoOp EXCEPT !.op = "InitializeFromConfig"]
        /\ UNCHANGED <<mapVars, ctxCancelled, badSessions, memVars, stdioVars, runVars, execVars, lockVars, sse, api, sig, snap>>

\* A loop that gives up the remaining servers after a failed connection.
RemainingAbort(todo, serverID, failed) ==
  IF failed THEN {} ELSE todo \ {serverID}

\* The servers still to visit after serverID's iteration: a failed connection
\* is logged and the loop continues.
Remaining(todo, serverID, failed) == todo \ {serverID}

\* Whether the switch on serverConfig.Type reaches a Connect call.
Connects(sc) == sc.type \in {"sse", "stdio"} /\ sc.addr # ""

\* A loop that does not look at ctx.
LoopCtxIgnored(cancelled) == FALSE

\* The select at the top of the range loop's body: ctx.Done() is closed.
LoopCtxDone(cancelled) == cancelled

\* One iteration of the range loop (Go visits the map's keys in any order):
\* the ctx test, then the switch on the server's type. After the last
\* iteration the call returns nil.
InitStep ==
  /\ initPc = "loop"
  /\ IF LoopCtxDone(ctxCancelled)
       THEN /\ initPc' = "done"
            /\ initLog' = [initLog EXCEPT !.result = "cancelled"]
            /\ initTodo' = {}
            /\ UNCHANGED mapVars
     ELSE \E serverID \in initTodo, sc \in ServerConfigs, a \in Attempts :
            LET st == IF Connects(sc)
                        THEN ConnectState(MgrState, serverID, sc.addr, a.outcome, a.listing)
                        ELSE MgrState
                bad == ~Connects(sc) \/ st.err
            IN  /\ Connects(sc) /\ a.outcome # "initFail" => nextSession <= MaxSessions
                /\ ~Connects(sc) => a.outcome = "initFail"
                /\ SetMaps(st)
                /\ initTodo' = Remaining(initTodo, serverID, bad)
                /\ initPc' = IF initTodo' = {} THEN "done" ELSE "loop"
                /\ initLog' =
                     [initLog EXCEPT
                        !.attempted = @ \cup {serverID},
                        !.failed = IF bad THEN @ \cup {serverID} ELSE @,
                        !.result = IF initTodo' = {} THEN "nil" ELSE @]
  /\ lastOp' = [NoOp EXCEPT !.op = "InitializeFromConfig"]
  /\ UNCHANGED <<ctxCancelled, badSessions, memVars, stdioVars, runVars, execVars, lockVars, sse, api, sig, snap>>

\* The caller takes InitializeFromConfig's return value.
InitReturn ==
  /\ initPc = "done"
  /\ initPc' = "idle"
  /\ initLog' = NoLog
  /\ UNCHANGED <<mapVars, ctxCancelled, initTodo, lastOp, badSessions, memVars, stdioVars, runVars, execVars, lockVars, sse, api, sig, snap>>

MgrNext ==
  \/ ConnectStdio
  \/ ConnectSSE
  \/ Disconnect
  \/ Close
  \/ CancelCtx
  \/ InitBegin
  \/ InitStep
  \/ InitReturn

\* Something goes wrong for a registered session such that its shutdown
\* will not be clean: the child of a stdio session will exit with an error
\* or will not be killable when Close is called.
SessionBreaks ==
  \E id \in DOMAIN sessions :
    /\ MgrFree
    /\ sessions[id] \notin badSessions
    /\ badSessions' = badSessions \cup {sessions[id]}
    /\ UNCHANGED <<mapVars, ctxCancelled, initPc, initTodo, initLog, lastOp, memVars,
                   stdioVars, runVars, execVars, lockVars, sse, api, sig, snap>>

\* The manager used directly, with sessions whose shutdown can go wrong.
CloseNext ==
  \/ ConnectStdio
  \/ ConnectSSE
  \/ Disconnect
  \/ SessionBreaks
  \/ Close

(***************************************************************************)
(* mcp.StdioSession: requests and responses over the child's pipes         *)
(***************************************************************************)
Callers == 1..NumCallers

\* An initialized session: the child runs, nobody holds the mutex.
StdioRest ==
  /\ stMu = 0
  /\ stClosed = FALSE
  /\ childUp = TRUE
  /\ childInbox = {}
  /\ stdoutPipe = <<>>
  /\ readers = {}
  /\ doneChan = EmptyMap
  /\ callPc = [c \in Callers |-> "idle"]
  /\ callReq = [c \in Callers |-> 0]
  /\ nextReq = 1
  /\ returned = {}
  /\ shutdownLog = <<>>
  /\ cmdCtx = "live"
  /\ closeResults = <<>>

\* The result record of a finished ListTools / CallTool.
CallResult(req, kind, resp) == [req |-> req, kind |-> kind, resp |-> resp]

\* sendRequest up to its select, for caller c: take the mutex, test closed,
\* write the request line to stdin, start the reader goroutine. The three
\* early returns release the mutex at once.
SendRequest(c) ==
  /\ callPc[c] = "idle"
  /\ stMu = 0
  /\ nextReq <= MaxRequests
  /\ nextReq' = nextReq + 1
  /\ IF stClosed
       THEN /\ returned' = returned \cup {CallResult(nextReq, "error", "closed")}
            /\ UNCHANGED <<stMu, childInbox, readers, callPc, callReq>>
     ELSE IF ~childUp
       THEN /\ returned' = returned \cup {CallResult(nextReq, "error", "send")}
            /\ UNCHANGED <<stMu, childInbox, readers, callPc, callReq>>
     ELSE /\ stMu' = c
          /\ childInbox' = childInbox \cup {nextReq}
          /\ readers' = readers \cup {nextReq}
          /\ callPc' = [callPc EXCEPT ![c] = "waiting"]
          /\ callReq' = [callReq EXCEPT ![c] = nextReq]
          /\ UNCHANGED returned
  /\ UNCHANGED <<stClosed, childUp, stdoutPipe, doneChan, shutdownLog, cmdCtx, closeResults,
                   memVars, mgrVars, runVars, execVars, lockVars, sse, api, sig, snap>>

\* StdioSession.ListTools: a tools/list request.
ListTools == \E c \in Callers : SendRequest(c)

\* StdioSession.CallTool: a tools/call request.
CallTool == \E c \in Callers : SendRequest(c)

\* The response a reader that took line hands to its call: the line itself,
\* whatever id it carries.
Deliver(req, line) == line

\* The reader goroutine of request r: its scanner's Read takes one or more
\* whole lines off the pipe, Scan returns the first, the others are lost with
\* the scanner. The line goes to the done channel, which only the call that
\* started the reader will ever receive from.
ReaderScan ==
  \E r \in readers, k \in 1..Len(stdoutPipe) :
    /\ stdoutPipe' = SubSeq(stdoutPipe, k + 1, Len(stdoutPipe))
    /\ readers' = readers \ {r}
    /\ doneChan' =
         IF \E c \in Callers : callPc[c] = "waiting" /\ callReq[c] = r
           THEN MapPut(doneChan, r, [kind |-> "line", resp |-> Deliver(r, Head(stdoutPipe))])
           ELSE doneChan
    /\ UNCHANGED <<stMu, stClosed, childUp, childInbox, callPc, callReq, nextReq,
                   returned, shutdownLog, cmdCtx, closeResults,
                   memVars, mgrVars, runVars, execVars, lockVars, sse, api, sig, snap>>

\* The reader goroutine of request r at end of input: the child is gone and
\* the pipe is empty, so Scan returns false and the error goes to errChan.
ReaderEOF ==
  \E r \in readers :
    /\ ~childUp
    /\ stdoutPipe = <<>>
    /\ readers' = readers \ {r}
    /\ doneChan' =
         IF \E c \in Callers : callPc[c] = "waiting" /\ callReq[c] = r
           THEN MapPut(doneChan, r, [kind |-> "error", resp |-> "eof"])
           ELSE doneChan
    /\ UNCHANGED <<stMu, stClosed, childUp, childInbox, stdoutPipe, callPc, callReq,
                   nextReq, returned, shutdownLog, cmdCtx, closeResults,
                   memVars, mgrVars, runVars, execVars, lockVars, sse, api, sig, snap>>

\* sendRequest's select, case done / errChan: the call returns what its
\* reader delivered and releases the mutex.
CallReturn ==
  \E c \in Callers :
    /\ callPc[c] = "waiting"
    /\ callReq[c] \in DOMAIN doneChan
    /\ returned' = returned \cup
         {CallResult(callReq[c], doneChan[callReq[c]].kind, doneChan[callReq[c]].resp)}
    /\ doneChan' = MapKeep(doneChan, DOMAIN doneChan \ {callReq[c]})
    /\ callPc' = [callPc EXCEPT ![c] = "idle"]
    /\ stMu' = 0
    /\ UNCHANGED <<stClosed, childUp, childInbox, stdoutPipe, readers, callReq,
                   nextReq, shutdownLog, cmdCtx, closeResults,
                   memVars, mgrVars, runVars, execVars, lockVars, sse, api, sig, snap>>

\* sendRequest's select, case ctx.Done: the call returns an error and
\* releases the mutex; its reader goroutine is left running.
CallCancelled ==
  \E c \in Callers :
    /\ callPc[c] = "waiting"
    /\ returned' = returned \cup {CallResult(callReq[c], "error", "cancelled")}
    /\ doneChan' = MapKeep(doneChan, DOMAIN doneChan \ {callReq[c]})
    /\ callPc' = [callPc EXCEPT ![c] = "idle"]
    /\ stMu' = 0
    /\ UNCHANGED <<stClosed, childUp, childInbox, stdoutPipe, readers, callReq,
                   nextReq, shutdownLog, cmdCtx, closeResults,
                   memVars, mgrVars, runVars, execVars, lockVars, sse, api, sig, snap>>

\* The child answers one of the requests it has read: a line carrying that
\* request's id.
ChildRespond ==
  \E r \in childInbox :
    /\ childUp
    /\ childInbox' = childInbox \ {r}
    /\ stdoutPipe' = Append(stdoutPipe, r)
    /\ UNCHANGED <<stMu, stClosed, childUp, readers, doneChan, callPc, callReq,
                   nextReq, returned, shutdownLog, cmdCtx, closeResults,
                   memVars, mgrVars, runVars, execVars, lockVars, sse, api, sig, snap>>

\* The child exits on its own.
ChildExit ==
  /\ childUp
  /\ childUp' = FALSE
  /\ childInbox' = {}
  /\ UNCHANGED <<stMu, stClosed, stdoutPipe, readers, doneChan, callPc, callReq,
                 nextReq, returned, shutdownLog, cmdCtx, closeResults,
                   memVars, mgrVars, runVars, execVars, lockVars, sse, api, sig, snap>>

\* A closed test that never finds the session closed.
NeverClosed(closed) == FALSE

\* Close's test of s.closed.
AlreadyClosed(closed) == closed

\* The ways the wait in Close can go for a running child: it exits within
\* the grace period after its stdin was closed, or the grace period elapses
\* and Close kills it. For a child that is gone Wait returns at once.
CloseWaits(up) ==
  IF up THEN {<<"exit">>, <<"graceElapsed", "kill">>} ELSE {<<>>}

\* StdioSession.Close: under the mutex, return nil if closed; else set
\* closed, close stdin, wait for the child and kill it after the grace
\* period, and return nil.
StdioClose ==
  \E wait \in CloseWaits(childUp) :
    /\ stMu = 0
    /\ Len(closeResults) < MaxCloses
    /\ closeResults' = Append(closeResults, "nil")
    /\ IF AlreadyClosed(stClosed)
         THEN /\ wait = IF childUp THEN <<"exit">> ELSE <<>>
              /\ UNCHANGED <<stClosed, childUp, childInbox, shutdownLog>>
         ELSE /\ stClosed' = TRUE
              /\ childUp' = FALSE
              /\ childInbox' = {}
              /\ shutdownLog' = shutdownLog \o <<"stdinClose">> \o wait
    /\ UNCHANGED <<stMu, stdoutPipe, readers, doneChan, callPc, callReq, nextReq,
                   returned, cmdCtx, memVars, mgrVars, runVars, execVars, lockVars, sse, api, sig, snap>>

\* The context handed to Initialize becomes done (it is cancelled, or its
\* deadline passes): exec.CommandContext kills a child that still runs.
ContextDone ==
  /\ cmdCtx = "live"
  /\ cmdCtx' = "done"
  /\ IF childUp
       THEN /\ childUp' = FALSE
            /\ childInbox' = {}
            /\ shutdownLog' = Append(shutdownLog, "ctxKill")
       ELSE UNCHANGED <<childUp, childInbox, shutdownLog>>
  /\ UNCHANGED <<stMu, stClosed, stdoutPipe, readers, doneChan, callPc, callReq,
                 nextReq, returned, closeResults, memVars, mgrVars, runVars, execVars, lockVars, sse, api, sig, snap>>

StdioNext ==
  \/ ListTools
  \/ CallTool
  \/ ReaderScan
  \/ ReaderEOF
  \/ CallReturn
  \/ CallCancelled
  \/ ChildRespond
  \/ ChildExit
  \/ StdioClose
  \/ ContextDone

\* The life of a session from Initialize to Close: calls that are answered,
\* the child's exit, the end of the context, Close.
ShutdownNext ==
  \/ CallTool
  \/ ChildRespond
  \/ ReaderScan
  \/ CallReturn
  \/ ChildExit
  \/ ContextDone
  \/ StdioClose

\* A session on which calls are made and Close is called, with a context
\* that is never cancelled: the child may answer, stay silent or exit.
CloseWaitNext ==
  \/ CallTool
  \/ ChildRespond
  \/ ChildExit
  \/ ReaderScan
  \/ ReaderEOF
  \/ CallReturn
  \/ StdioClose

\* What the goroutines of the program do whenever they can: a reader
\* goroutine scans what the pipe holds, a call takes what its reader
\* delivered, and a goroutine that has called Close goes on as soon as the
\* mutex is free. The child owes nothing.
CloseWaitProgress ==
  /\ WF_vars(ReaderScan)
  /\ WF_vars(ReaderEOF)
  /\ WF_vars(CallReturn)
  /\ WF_vars(StdioClose)

(***************************************************************************)
(* agent.Agent.Run and agent.Manus.Run: one run of the step loop           *)
(***************************************************************************)

\* A *string field: Nil for the nil pointer, Some(t) for a pointer to t.
Nil == <<>>
Some(text) == <<text>>

\* The completion markers. The two Chinese markers are written in pinyin;
\* as in the source, the shorter one is a substring of the longer one.
MarkerRenwuWancheng == "renwu wancheng"
MarkerTaskCompleted == "task completed"
MarkerWancheng == "wancheng"
MarkerCompleted == "completed"
MarkerTerminate == "Terminate"

\* The values of AgentState.
AgentStateIdle == "IDLE"
AgentStateRunning == "RUNNING"
AgentStateFinished == "FINISHED"
AgentStateError == "ERROR"

\* NewAgent's settings.
DefaultMaxSteps == 10
DefaultDuplicateThreshold == 2
\* The number of recent messages isDuplicateResponse looks at.
DuplicateWindow == 5

AgentKinds == {"Agent", "Manus"}
\* Agent.SystemPrompt: NewManus always passes a non-empty one.
SystemPrompts == IF agentKind = "Manus" THEN {"sys"} ELSE {"", "sys"}
Prompts == {"p"}

\* The texts a model reply may carry.
ReplyContents == {Nil, Some("x"), Some("all completed"), Some("Terminate")}

\* The names a model may put in a tool call: the Terminate tool and the
\* adapter of server A's echo, which is registered only if A connected.
ToolChoices == {"Terminate", LocalName("A", "echo")}

\* contains / containsSubstring: s has substr as a substring.
contains(s, substr) ==
  /\ Len(s) >= Len(substr)
  /\ \E i \in 0..(Len(s) - Len(substr)) : SubSeq(s, i + 1, i + Len(substr)) = substr

NewSystemMessage(content) ==
  [role |-> "system", content |-> Some(content), toolCalls |-> <<>>,
   name |-> Nil, toolCallID |-> Nil]

NewUserMessage(content) ==
  [role |-> "user", content |-> Some(content), toolCalls |-> <<>>,
   name |-> Nil, toolCallID |-> Nil]

NewToolMessage(content, name, toolCallID) ==
  [role |-> "tool", content |-> Some(content), toolCalls |-> <<>>,
   name |-> Some(name), toolCallID |-> Some(toolCallID)]

\* The message LLM.GenerateResponse returns for a reply.
ResponseMessage(reply) ==
  [role |-> "assistant", content |-> reply.content, toolCalls |-> reply.toolCalls,
   name |-> Nil, toolCallID |-> Nil]

\* Memory.AddMessage on a message sequence.
MemAdd(msgs, m) == Trim(Append(msgs, m), MaxMessages)

\* The tool calls of one reply: at most n calls, ids numbered in order.
ToolCallSeqs(n) ==
  UNION { { [i \in 1..k |-> [id |-> i, name |-> names[i]]] :
              names \in [1..k -> ToolChoices] } : k \in 0..n }

\* The tool calls the model has returned so far in this run.
RECURSIVE ToolCallsMade(_)
ToolCallsMade(msgs) ==
  IF msgs = <<>> THEN 0 ELSE Len(Head(msgs).toolCalls) + ToolCallsMade(Tail(msgs))

\* What the model may reply: the base agent registers no tool, so its
\* replies carry no tool calls.
Replies ==
  {[content |-> c, toolCalls |-> tc] :
     c \in ReplyContents,
     tc \in IF agentKind = "Manus"
              THEN ToolCallSeqs(MaxToolCalls - ToolCallsMade(Messages))
              ELSE {<<>>}}

\* Agent.isTaskComplete.
AgentIsTaskComplete(response) ==
  /\ response.content # Nil
  /\ \/ contains(response.content[1], MarkerRenwuWancheng)
     \/ contains(response.content[1], MarkerTaskCompleted)
     \/ contains(response.content[1], MarkerWancheng)
     \/ contains(response.content[1], MarkerCompleted)

\* A completion test that looks at the text of the reply alone.
CompleteByTextAlone(response) ==
  /\ response.content # Nil
  /\ \/ contains(response.content[1], MarkerRenwuWancheng)
     \/ contains(response.content[1], MarkerTaskCompleted)
     \/ contains(response.content[1], MarkerWancheng)
     \/ contains(response.content[1], MarkerCompleted)
     \/ contains(response.content[1], MarkerTerminate)

\* Manus.isTaskComplete.
ManusIsTaskComplete(response) ==
  \/ /\ response.content # Nil
     /\ \/ contains(response.content[1], MarkerRenwuWancheng)
        \/ contains(response.content[1], MarkerTaskCompleted)
        \/ contains(response.content[1], MarkerWancheng)
        \/ contains(response.content[1], MarkerCompleted)
        \/ contains(response.content[1], MarkerTerminate)
  \/ \E i \in DOMAIN response.toolCalls : response.toolCalls[i].name = "Terminate"

isTaskComplete(response) ==
  IF agentKind = "Manus" THEN ManusIsTaskComplete(response)
  ELSE AgentIsTaskComplete(response)

\* Agent.isDuplicateResponse, called after the response was added to msgs.
isDuplicateResponse(msgs, response, threshold) ==
  /\ response.content # Nil
  /\ LET recentMessages == GetRecentMessages(msgs, DuplicateWindow)
         duplicateCount ==
           Cardinality({i \in DOMAIN recentMessages :
                          /\ recentMessages[i].content # Nil
                          /\ recentMessages[i].content = response.content})
     IN  duplicateCount >= threshold

\* A loop that runs one step more.
LoopCondInclusive(step, max) == step <= max

\* The loop condition of Run.
LoopCond(step, max) == step < max

\* A step that does not count itself.
StepStays(step) == step

\* CurrentStep++ at the start of a step.
NextStep(step) == step + 1

\* addDefaultTools: the six local tools.
DefaultTools ==
  [n \in {"PythonExecute", "SimpleBrowser", "SimpleSearch", "StrReplaceEditor",
          "AskHuman", "Terminate"} |-> [kind |-> "local", session |-> 0]]

\* initializeMCPClients' loop: one NewMCPToolAdapter per tool of GetTools.
WithAdapters(reg, tl) ==
  [n \in DOMAIN reg \cup DOMAIN tl |->
     IF n \in DOMAIN tl THEN [kind |-> "mcp", session |-> tl[n].session] ELSE reg[n]]

\* The ways executeTool can go for a call of name: the tool is not
\* registered; a local tool returns a result or an error; an MCP tool
\* returns a result or an error (the server's error response), or its
\* CallTool fails in sendRequest because the session is closed or its pipe
\* is broken, or is in flight when ctx is cancelled and returns ctx.Err().
ToolOutcomes(reg, name) ==
  IF name \notin DOMAIN reg THEN {"notfound"}
  ELSE IF reg[name].kind = "mcp" THEN {"ok", "error", "broken", "cancelled"}
  ELSE {"ok", "error"}

OutcomeSeqs(reg, calls) ==
  {o \in [DOMAIN calls -> UNION {ToolOutcomes(reg, calls[i].name) : i \in DOMAIN calls}] :
     \A i \in DOMAIN calls : o[i] \in ToolOutcomes(reg, calls[i].name)}

\* fmt.Sprintf("%v", toolResult.Result): the result's text, and "<nil>" for
\* the nil Result of an unsuccessful ToolResult.
ResultText(outcome) == IF outcome = "ok" THEN "out" ELSE "<nil>"

\* A loop that adds a tool message for the successful calls only.
RECURSIVE ExecuteToolsSkipFailed(_, _, _, _)
ExecuteToolsSkipFailed(msgs, calls, outs, i) ==
  IF i > Len(calls) THEN msgs
  ELSE ExecuteToolsSkipFailed(
         IF outs[i] = "ok"
           THEN MemAdd(msgs, NewToolMessage(ResultText(outs[i]), calls[i].name, calls[i].id))
           ELSE msgs,
         calls, outs, i + 1)

\* processCurrentState's loop over response.ToolCalls: executeTool never
\* returns an error, so every call adds one tool message.
RECURSIVE ExecuteTools(_, _, _, _)
ExecuteTools(msgs, calls, outs, i) ==
  IF i > Len(calls) THEN msgs
  ELSE ExecuteTools(
         MemAdd(msgs, NewToolMessage(ResultText(outs[i]), calls[i].name, calls[i].id)),
         calls, outs, i + 1)

\* A select that never finds a Done channel closed.
CtxNeverDone == FALSE

\* The agent's own Done channel: the agent context is derived from ctx.
AgentCtxDone == agentCtx = "done" \/ (agentCtx = "live" /\ ctxCancelled)

\* NewAgent / NewManus, Run not called yet; the manager holds no session.
RunRest ==
  /\ agentKind = "Agent"
  /\ MaxSteps = DefaultMaxSteps
  /\ DuplicateThreshold = DefaultDuplicateThreshold
  /\ CurrentStep = 0
  /\ State = AgentStateIdle
  /\ agentCtx = "nil"
  /\ registry = EmptyMap
  /\ runPc = "idle"
  /\ runResult = "none"
  /\ llmCalls = 0
  /\ warned = FALSE
  /\ triggers = {}
  /\ cancelInFlight = 0

\* An agent of either kind with its MaxSteps set, and for the base agent,
\* the only one whose Run reads it, its DuplicateThreshold.
RunInit ==
  /\ agentKind \in AgentKinds
  /\ MaxSteps \in 0..MaxStepsBound
  /\ DuplicateThreshold \in
       IF agentKind = "Agent" THEN 1..MaxThreshold ELSE {DefaultDuplicateThreshold}
  /\ CurrentStep = 0
  /\ State = AgentStateIdle
  /\ agentCtx = "nil"
  /\ registry = EmptyMap
  /\ runPc = "idle"
  /\ runResult = "none"
  /\ llmCalls = 0
  /\ warned = FALSE
  /\ triggers = {}
  /\ cancelInFlight = 0

\* Agent.Initialize: the context, the state, the system message.
AgentInitialize(msgs, systemPrompt) ==
  IF systemPrompt # "" THEN MemAdd(msgs, NewSystemMessage(systemPrompt)) ELSE msgs

\* Run up to its loop. Initialize derives the agent context and adds the
\* system message; Manus.Initialize then registers the default tools and,
\* with MCP enabled and ctx live, connects the configured stdio server A and
\* registers an adapter for each of its tools. Then RUNNING and the user
\* message.
RunStart ==
  /\ runPc = "idle"
  /\ agentCtx = "nil"
  /\ agentCtx' = "live"
  /\ State' = AgentStateRunning
  /\ runPc' = "loop"
  /\ \E systemPrompt \in SystemPrompts, prompt \in Prompts,
        enabled \in BOOLEAN, outcome \in Outcomes :
       /\ Messages' = MemAdd(AgentInitialize(Messages, systemPrompt), NewUserMessage(prompt))
       /\ IF agentKind = "Manus" /\ enabled /\ ~ctxCancelled
            THEN LET st == ConnectState(MgrState, "A", "cmd", outcome, <<"echo">>)
                 IN  /\ SetMaps(st)
                     /\ registry' = WithAdapters(DefaultTools, st.tools)
            ELSE /\ outcome = "initFail"
                 /\ registry' = IF agentKind = "Manus" THEN DefaultTools ELSE registry
                 /\ UNCHANGED mapVars
  /\ UNCHANGED <<agentKind, MaxSteps, DuplicateThreshold, CurrentStep, runResult,
                 llmCalls, warned, triggers, cancelInFlight, MaxMessages, appended,
                 ctxCancelled, initPc, initTodo, initLog, lastOp, badSessions, stdioVars, execVars, lockVars, sse, api, sig, snap>>

\* The select at the top of a step: one of the two Done channels is closed,
\* Run returns the cancellation error.
RunCancelled ==
  /\ runPc = "loop"
  /\ LoopCond(CurrentStep, MaxSteps)
  /\ AgentCtxDone
  /\ runResult' = "cancelled"
  /\ triggers' = triggers \cup {"cancel"}
  /\ runPc' = "deferState"
  /\ UNCHANGED <<agentKind, MaxSteps, DuplicateThreshold, CurrentStep, State, agentCtx,
                 registry, llmCalls, warned, cancelInFlight, memVars, mgrVars, stdioVars, execVars, lockVars, sse, api, sig, snap>>

\* A step whose model call fails: ERROR, and Run returns the error.
RunModelFails ==
  /\ runPc = "loop"
  /\ LoopCond(CurrentStep, MaxSteps)
  /\ ~AgentCtxDone
  /\ CurrentStep' = NextStep(CurrentStep)
  /\ llmCalls' = llmCalls + 1
  /\ State' = AgentStateError
  /\ runResult' = "failure"
  /\ triggers' = triggers \cup {"failure"}
  /\ runPc' = "deferState"
  /\ UNCHANGED <<agentKind, MaxSteps, DuplicateThreshold, agentCtx, registry, warned,
                 cancelInFlight, memVars, mgrVars, stdioVars, execVars, lockVars, sse, api, sig, snap>>

\* A step whose model call returns a reply: the reply goes to memory, Manus
\* executes its tool calls in order and adds their tool messages, then the
\* completion test and, in Agent.Run only, the duplicate test. A break
\* leaves the loop: the step-limit warning and return nil.
RunStep ==
  /\ runPc = "loop"
  /\ LoopCond(CurrentStep, MaxSteps)
  /\ ~AgentCtxDone
  /\ CurrentStep' = NextStep(CurrentStep)
  /\ llmCalls' = llmCalls + 1
  /\ \E reply \in Replies :
       \E outs \in OutcomeSeqs(registry, reply.toolCalls) :
         LET response == ResponseMessage(reply)
             withReply == MemAdd(Messages, response)
             inFlight == {i \in DOMAIN outs : outs[i] = "cancelled"}
             first == CHOOSE i \in inFlight : \A j \in inFlight : i <= j
             complete == isTaskComplete(response)
             duplicate == isDuplicateResponse(withReply, response, DuplicateThreshold)
             break == complete \/ (agentKind = "Agent" /\ duplicate)
         IN  /\ Messages' = ExecuteTools(withReply, reply.toolCalls, outs, 1)
             /\ ctxCancelled' = (ctxCancelled \/ inFlight # {})
             /\ cancelInFlight' =
                  IF inFlight # {} /\ cancelInFlight = 0
                    THEN registry[reply.toolCalls[first].name].session
                    ELSE cancelInFlight
             /\ triggers' = triggers \cup (IF complete THEN {"completion"} ELSE {})
                                     \cup (IF duplicate THEN {"duplicate"} ELSE {})
                                     \cup (IF \E i \in DOMAIN outs : outs[i] = "broken"
                                             THEN {"transport"} ELSE {})
             /\ IF break
                  THEN /\ warned' = (CurrentStep' >= MaxSteps)
                       /\ runResult' = "nil"
                       /\ runPc' = "deferState"
                  ELSE UNCHANGED <<warned, runResult, runPc>>
  /\ UNCHANGED <<agentKind, MaxSteps, DuplicateThreshold, State, agentCtx,
                 registry, MaxMessages, appended, mapVars, initPc, initTodo,
                 initLog, lastOp, badSessions, stdioVars, execVars, lockVars, sse, api, sig, snap>>

\* The loop condition fails: the step-limit warning and return nil.
RunLoopEnd ==
  /\ runPc = "loop"
  /\ ~LoopCond(CurrentStep, MaxSteps)
  /\ warned' = (CurrentStep >= MaxSteps)
  /\ runResult' = "nil"
  /\ runPc' = "deferState"
  /\ UNCHANGED <<agentKind, MaxSteps, DuplicateThreshold, CurrentStep, State, agentCtx,
                 registry, llmCalls, triggers, cancelInFlight, memVars, mgrVars,
                 stdioVars, execVars, lockVars, sse, api, sig, snap>>

\* The last deferred call runs first: SetState(AgentStateFinished).
DeferSetState ==
  /\ runPc = "deferState"
  /\ State' = AgentStateFinished
  /\ runPc' = "deferCleanup"
  /\ UNCHANGED <<agentKind, MaxSteps, DuplicateThreshold, CurrentStep, agentCtx,
                 registry, runResult, llmCalls, warned, triggers, cancelInFlight,
                 memVars, mgrVars, stdioVars, execVars, lockVars, sse, api, sig, snap>>

\* A cleanup that leaves the manager alone.
CleanupSkipsClose(st) == st

\* Manus.Cleanup's first half: m.MCPClients.Close().
ManusCleanup(st) == CloseState(st)

\* Then Cleanup: Manus closes the MCP manager, Agent.Cleanup cancels the
\* agent context and sets IDLE; Run returns.
DeferCleanup ==
  /\ runPc = "deferCleanup"
  /\ IF agentKind = "Manus" THEN SetMaps(ManusCleanup(MgrState)) ELSE UNCHANGED mapVars
  /\ agentCtx' = "done"
  /\ State' = AgentStateIdle
  /\ runPc' = "done"
  /\ UNCHANGED <<agentKind, MaxSteps, DuplicateThreshold, CurrentStep, registry,
                 runResult, llmCalls, warned, triggers, cancelInFlight, memVars,
                 ctxCancelled, initPc, initTodo, initLog, lastOp, badSessions, stdioVars, execVars, lockVars, sse, api, sig, snap>>

\* Manus.Run derives the agent context from initCtx, whose deadline comes
\* 60 seconds after Run was called: past it the agent context is done. With
\* ctx cancelled it is done already.
DeadlineExpires ==
  /\ agentKind = "Manus"
  /\ runPc = "loop"
  /\ agentCtx = "live"
  /\ ~ctxCancelled
  /\ agentCtx' = "done"
  /\ UNCHANGED <<agentKind, MaxSteps, DuplicateThreshold, CurrentStep, State, registry,
                 runPc, runResult, llmCalls, warned, triggers, cancelInFlight,
                 memVars, mgrVars, stdioVars, execVars, lockVars, sse, api, sig, snap>>

\* Run is called again on an agent whose Run has returned. Initialize finds
\* a.ctx set (Cleanup cancels the context and leaves the field) and returns
\* its already-initialized error, which Run returns before it has registered
\* a deferred call or touched the agent.
RunAgain ==
  /\ runPc = "done"
  /\ agentCtx # "nil"
  /\ runPc' = "refused"
  /\ runResult' = "initError"
  /\ UNCHANGED <<agentKind, MaxSteps, DuplicateThreshold, CurrentStep, State, agentCtx,
                 registry, llmCalls, warned, triggers, cancelInFlight, memVars, mgrVars,
                 stdioVars, execVars, lockVars, sse, api, sig, snap>>

RunNext ==
  \/ RunStart
  \/ RunCancelled
  \/ RunModelFails
  \/ RunStep
  \/ RunLoopEnd
  \/ DeferSetState
  \/ DeferCleanup
  \/ DeadlineExpires
  \/ CancelCtx

(***************************************************************************)
(* mcp.MCPTool.Execute: the tool result as text                            *)
(***************************************************************************)

\* The text Execute returns for a result without text (a Chinese sentence in
\* the source, written here in English).
NoContentText == "tool finished, no content"

\* The Content values a result may hold.
ContentParts ==
  { [type |-> "text", text |-> "42"], [type |-> "text", text |-> ""],
    [type |-> "text", text |-> "a"],  [type |-> "image", text |-> "img"] }

\* The Content slices of at most MaxParts parts.
ContentLists == UNION { [1..k -> ContentParts] : k \in 0..MaxParts }

\* Execute's loop: the Text of every part of Type "text", each followed by
\* a newline.
RECURSIVE TextOf(_)
TextOf(parts) ==
  IF parts = <<>> THEN ""
  ELSE (IF Head(parts).type = "text" THEN Head(parts).text \o "\n" ELSE "")
         \o TextOf(Tail(parts))

\* MCPTool.Execute after a successful CallTool.
Flatten(parts) ==
  LET output == TextOf(parts)
  IN  IF output = "" THEN NoContentText ELSE output

\* NewToolCallAgent's MaxObserve.
DefaultMaxObserve == 10000

\* executeTool's cut: a text longer than max is cut to its first max
\* characters and "..." is appended.
Truncate(text, max) ==
  IF Len(text) > max THEN SubSeq(text, 1, max) \o "..." ELSE text

\* No Execute call is under way.
ExecRest ==
  /\ execParts = <<>>
  /\ execOutput = Some(NoContentText)
  /\ MaxObserve = DefaultMaxObserve
  /\ observed = Some(NoContentText)

\* CallTool has returned a result, Execute has not flattened it yet.
ExecInit ==
  /\ execParts \in ContentLists
  /\ execOutput = Nil
  /\ MaxObserve \in 0..MaxObserveBound
  /\ observed = Nil

Execute ==
  /\ execOutput = Nil
  /\ execOutput' = Some(Flatten(execParts))
  /\ UNCHANGED <<execParts, MaxObserve, observed, memVars, mgrVars, stdioVars, runVars, lockVars, sse, api, sig, snap>>

\* executeTool after Execute has returned its result without an error.
Observe ==
  /\ execOutput # Nil
  /\ observed = Nil
  /\ observed' = Some(Truncate(execOutput[1], MaxObserve))
  /\ UNCHANGED <<execParts, execOutput, MaxObserve, memVars, mgrVars, stdioVars, runVars, lockVars, sse, api, sig, snap>>

ExecNext == Execute \/ Observe

(***************************************************************************)
(* mcp.MCPClients.mu: which calls hold the lock while they use the maps    *)
(***************************************************************************)

Goroutines == 1..NumGoroutines

\* The methods that take m.mu.Lock(), those that take m.mu.RLock(), and
\* InitializeFromConfig, which takes neither itself.
ExclusiveOps == {"ConnectSSE", "ConnectStdio", "Disconnect", "Close"}
SharedOps == {"GetTools", "GetTool"}
ManagerOps == ExclusiveOps \cup SharedOps \cup {"InitializeFromConfig"}

NoCall == [op |-> "none", pc |-> "idle"]

\* No goroutine is in a method of the manager.
LockRest ==
  /\ mu = [writer |-> 0, readers |-> {}]
  /\ callers = [g \in Goroutines |-> NoCall]

\* A goroutine calls a method: a locking method goes to its Lock or RLock
\* statement, InitializeFromConfig to its range loop.
Call(g) ==
  \E op \in ManagerOps :
    /\ callers[g].pc = "idle"
    /\ callers' = [callers EXCEPT ![g] =
                     [op |-> op,
                      pc |-> IF op = "InitializeFromConfig" THEN "initLoop" ELSE "waiting"]]
    /\ UNCHANGED <<mu, memVars, mgrVars, stdioVars, runVars, execVars, sse, api, sig, snap>>

\* InitializeFromConfig's loop calls ConnectSSE or ConnectStdio.
InitConnect(g) ==
  /\ callers[g].pc = "initLoop"
  /\ callers' = [callers EXCEPT ![g].pc = "waiting"]
  /\ UNCHANGED <<mu, memVars, mgrVars, stdioVars, runVars, execVars, sse, api, sig, snap>>

\* sync.RWMutex: Lock returns when there is no writer and no reader, RLock
\* when there is no writer. The method then works on the maps.
Lock(g) ==
  /\ callers[g].pc = "waiting"
  /\ mu.writer = 0
  /\ IF callers[g].op \in SharedOps
       THEN mu' = [mu EXCEPT !.readers = @ \cup {g}]
       ELSE /\ mu.readers = {}
            /\ mu' = [mu EXCEPT !.writer = g]
  /\ callers' = [callers EXCEPT ![g].pc = "locked"]
  /\ UNCHANGED <<memVars, mgrVars, stdioVars, runVars, execVars, sse, api, sig, snap>>

\* The deferred Unlock or RUnlock: the method returns, to the loop of
\* InitializeFromConfig if that called it.
Unlock(g) ==
  /\ callers[g].pc = "locked"
  /\ mu' = [writer |-> IF mu.writer = g THEN 0 ELSE mu.writer,
            readers |-> mu.readers \ {g}]
  /\ callers' = [callers EXCEPT ![g] =
                   IF callers[g].op = "InitializeFromConfig"
                     THEN [callers[g] EXCEPT !.pc = "initLoop"]
                     ELSE NoCall]
  /\ UNCHANGED <<memVars, mgrVars, stdioVars, runVars, execVars, sse, api, sig, snap>>

\* After its loop InitializeFromConfig evaluates len(m.sessions) for its
\* last log line.
InitLogRead(g) ==
  /\ callers[g].pc = "initLoop"
  /\ callers' = [callers EXCEPT ![g].pc = "initLog"]
  /\ UNCHANGED <<mu, memVars, mgrVars, stdioVars, runVars, execVars, sse, api, sig, snap>>

\* InitializeFromConfig returns.
InitDone(g) ==
  /\ callers[g].pc = "initLog"
  /\ callers' = [callers EXCEPT ![g] = NoCall]
  /\ UNCHANGED <<mu, memVars, mgrVars, stdioVars, runVars, execVars, sse, api, sig, snap>>

LockNext ==
  \E g \in Goroutines :
    \/ Call(g)
    \/ InitConnect(g)
    \/ Lock(g)
    \/ Unlock(g)
    \/ InitLogRead(g)
    \/ InitDone(g)

(***************************************************************************)
(* mcp.SSESession: Initialize, ListTools, CallTool                         *)
(***************************************************************************)

\* NewSSESession: nothing sent, Initialize and Close not called. The struct
\* has no field for Close to set; closed is the history of Close having
\* returned.
SSENew(urlOK) == [urlOK |-> urlOK, init |-> "never", closed |-> FALSE, sent |-> <<>>]

SSERest == sse = SSENew(TRUE)

\* A new session for a URL that url.Parse accepts or rejects.
SSEInit == \E urlOK \in BOOLEAN : sse = SSENew(urlOK)

\* One HTTP request goes out; each records how the last Initialize had ended
\* when it was sent, and whether Close had returned.
Sent(s, kind) ==
  [s EXCEPT !.sent = Append(@, [kind |-> kind, init |-> s.init, closed |-> s.closed])]

\* How the probe of Initialize can end: no connection, a status other than
\* 200, or 200 with or without an event-stream Content-Type (the latter is
\* logged and accepted).
ProbeOutcomes == {"unreachable", "status", "eventStream", "otherType"}

\* SSESession.Initialize: an unparsable URL fails before any request; else
\* the GET probe is sent and its outcome decides.
SSEInitialize ==
  \E outcome \in ProbeOutcomes :
    /\ Len(sse.sent) < MaxTraffic
    /\ sse' = IF ~sse.urlOK
                THEN [sse EXCEPT !.init = "failed"]
                ELSE [Sent(sse, "probe") EXCEPT
                        !.init = IF outcome \in {"eventStream", "otherType"}
                                   THEN "ok" ELSE "failed"]
    /\ UNCHANGED <<memVars, mgrVars, stdioVars, runVars, execVars, lockVars, api, sig, snap>>

\* SSESession.ListTools: GET <host>/tools, unless the URL does not parse.
SSEListTools ==
  /\ Len(sse.sent) < MaxTraffic
  /\ sse.urlOK
  /\ sse' = Sent(sse, "list")
  /\ UNCHANGED <<memVars, mgrVars, stdioVars, runVars, execVars, lockVars, api, sig, snap>>

\* SSESession.CallTool: POST <host>/tools/call, unless the URL does not parse.
SSECallTool ==
  /\ Len(sse.sent) < MaxTraffic
  /\ sse.urlOK
  /\ sse' = Sent(sse, "call")
  /\ UNCHANGED <<memVars, mgrVars, stdioVars, runVars, execVars, lockVars, api, sig, snap>>

\* SSESession.Close: takes the mutex, logs, returns nil.
SSEClose ==
  /\ ~sse.closed
  /\ sse' = [sse EXCEPT !.closed = TRUE]
  /\ UNCHANGED <<memVars, mgrVars, stdioVars, runVars, execVars, lockVars, api, sig, snap>>

SSENext == SSEInitialize \/ SSEListTools \/ SSECallTool \/ SSEClose

(***************************************************************************)
(* agent.Agent's API besides Run: UpdateMemory, ProcessMessage, SetState   *)
(***************************************************************************)

\* The longest memory at which UpdateMemory or ProcessMessage is still called.
MaxApiMessages == 3

AgentStates ==
  {AgentStateIdle, AgentStateRunning, AgentStateFinished, AgentStateError}

\* The roles UpdateMemory is called with.
Roles == {"user", "assistant"}

NoApiCall == [op |-> "none", result |-> "ok"]

\* No call of the API yet.
ApiRest == api = NoApiCall

\* UpdateMemory's message: NewUserMessage(content) with its Role overwritten.
UpdateMemoryMessage(role, content) == [NewUserMessage(content) EXCEPT !.role = role]

\* Agent.UpdateMemory: in every status, adds the message and returns nil.
UpdateMemory ==
  /\ Len(Messages) < MaxApiMessages
  /\ \E role \in Roles :
       Messages' = MemAdd(Messages, UpdateMemoryMessage(role, "u"))
  /\ api' = [op |-> "UpdateMemory", result |-> "ok"]
  /\ UNCHANGED <<MaxMessages, appended, mgrVars, stdioVars, runVars, execVars, lockVars, sse, sig, snap>>

\* A status test that lets every status through.
AcceptsAlways(state) == TRUE

\* ProcessMessage's test of the status.
Accepts(state) == ~(state # AgentStateIdle /\ state # AgentStateRunning)

\* A failed model call that leaves the status alone.
FailureKeepsState(state) == state

\* The status after generateResponse returned an error.
FailureState(state) == AgentStateError

\* Agent.ProcessMessage and ToolCallAgent.ProcessMessage (the one Manus
\* inherits): the status test; the message goes to memory; the model call,
\* whose failure sets ERROR; the response goes to memory; the tool-call
\* agent then executes the response's tool calls in order.
ProcessMessage ==
  /\ Len(Messages) < MaxApiMessages
  /\ LET withMessage == MemAdd(Messages, NewUserMessage("m"))
     IN  IF ~Accepts(State)
           THEN /\ api' = [op |-> "ProcessMessage", result |-> "rejected"]
                /\ UNCHANGED <<Messages, State, llmCalls>>
           ELSE /\ llmCalls' = llmCalls + 1
                /\ \/ /\ Messages' = withMessage
                      /\ State' = FailureState(State)
                      /\ api' = [op |-> "ProcessMessage", result |-> "modelError"]
                   \/ /\ \E reply \in Replies :
                           \E outs \in OutcomeSeqs(registry, reply.toolCalls) :
                             LET withReply == MemAdd(withMessage, ResponseMessage(reply))
                             IN  Messages' =
                                   IF agentKind = "Manus"
                                     THEN ExecuteTools(withReply, reply.toolCalls, outs, 1)
                                     ELSE withReply
                      /\ UNCHANGED State
                      /\ api' = [op |-> "ProcessMessage", result |-> "ok"]
  /\ UNCHANGED <<MaxMessages, appended, mgrVars, stdioVars, agentKind, MaxSteps,
                 DuplicateThreshold, CurrentStep, agentCtx, registry, runPc, runResult,
                 warned, triggers, cancelInFlight, execVars, lockVars, sse, sig, snap>>

\* NewAgent / NewManus with their default settings, Run not called yet.
ApiRunInit ==
  /\ agentKind \in AgentKinds
  /\ MaxSteps = DefaultMaxSteps
  /\ DuplicateThreshold = DefaultDuplicateThreshold
  /\ CurrentStep = 0
  /\ State = AgentStateIdle
  /\ agentCtx = "nil"
  /\ registry = EmptyMap
  /\ runPc = "idle"
  /\ runResult = "none"
  /\ llmCalls = 0
  /\ warned = FALSE
  /\ triggers = {}
  /\ cancelInFlight = 0

\* Agent.SetState.
SetState ==
  /\ \E state \in AgentStates : State' = state
  /\ api' = [op |-> "SetState", result |-> "ok"]
  /\ UNCHANGED <<memVars, mgrVars, stdioVars, agentKind, MaxSteps, DuplicateThreshold,
                 CurrentStep, agentCtx, registry, runPc, runResult, llmCalls, warned,
                 triggers, cancelInFlight, execVars, lockVars, sse, sig, snap>>

\* The API calls around the start of Run.
ApiNext ==
  \/ UpdateMemory
  \/ ProcessMessage
  \/ SetState
  \/ RunStart

(***************************************************************************)
(* cmd.runDirect: the interrupt signals and the goroutine that handles them *)
(***************************************************************************)

\* The interrupt signals sent to the process.
MaxSignals == 4

\* make(chan os.Signal, 10).
SigChanCap == 10

\* The signals signal.Notify was asked for.
SignalKinds == {"interrupt", "terminated"}

\* runDirect after signal.Notify and the go statement: no signal yet, the
\* handler goroutine at its select, ctx live, agent.NewManus not called yet.
SigNew ==
  [delivered |-> 0, pending |-> <<>>, sigCount |-> 0, ctxDone |-> FALSE,
   handler |-> "select", main |-> "newManus", exit |-> "none"]

SigRest == sig = SigNew

\* A signal reaches the running process: signal.Notify puts it in sigChan,
\* and drops it if the channel is full.
SignalArrives ==
  /\ sig.exit = "none"
  /\ sig.delivered < MaxSignals
  /\ \E kind \in SignalKinds :
       sig' = [sig EXCEPT !.delivered = @ + 1,
                          !.pending = IF Len(@) < SigChanCap THEN Append(@, kind) ELSE @]
  /\ UNCHANGED <<memVars, mgrVars, stdioVars, runVars, execVars, lockVars, sse, api, snap>>

\* The handler's select, case sig := <-sigChan: count the signal, cancel(),
\* and os.Exit(1) from the second signal on.
HandlerSignal ==
  /\ sig.exit = "none"
  /\ sig.handler = "select"
  /\ sig.pending # <<>>
  /\ sig' = [sig EXCEPT !.pending = Tail(@),
                        !.sigCount = @ + 1,
                        !.ctxDone = TRUE,
                        !.exit = IF sig.sigCount + 1 >= 2 THEN "forced" ELSE @]
  /\ UNCHANGED <<memVars, mgrVars, stdioVars, runVars, execVars, lockVars, sse, api, snap>>

\* The handler's select, case <-ctx.Done(): the goroutine returns. With a
\* signal pending as well, select takes either case.
HandlerDone ==
  /\ sig.exit = "none"
  /\ sig.handler = "select"
  /\ sig.ctxDone
  /\ sig' = [sig EXCEPT !.handler = "returned"]
  /\ UNCHANGED <<memVars, mgrVars, stdioVars, runVars, execVars, lockVars, sse, api, snap>>

\* agent.NewManus returns: runDirect calls manus.Run, or returns the error
\* (its deferred cancel() runs and the process ends the ordinary way).
MainNewManus ==
  /\ sig.exit = "none"
  /\ sig.main = "newManus"
  /\ \E ok \in BOOLEAN :
       sig' = IF ok THEN [sig EXCEPT !.main = "run"]
              ELSE [sig EXCEPT !.main = "returned", !.ctxDone = TRUE, !.exit = "returned"]
  /\ UNCHANGED <<memVars, mgrVars, stdioVars, runVars, execVars, lockVars, sse, api, snap>>

\* manus.Run returns, with ctx cancelled or not: runDirect's deferred
\* cancel() runs and the process ends the ordinary way.
MainReturns ==
  /\ sig.exit = "none"
  /\ sig.main = "run"
  /\ sig' = [sig EXCEPT !.main = "returned", !.ctxDone = TRUE, !.exit = "returned"]
  /\ UNCHANGED <<memVars, mgrVars, stdioVars, runVars, execVars, lockVars, sse, api, snap>>

SignalNext ==
  \/ SignalArrives
  \/ HandlerSignal
  \/ HandlerDone
  \/ MainNewManus
  \/ MainReturns

\* The handler goroutine is scheduled while the process lives.
HandlerProgress == WF_vars(HandlerSignal \/ HandlerDone)

(***************************************************************************)
(* mcp.MCPClients: GetTools / GetTool against ConnectStdio / Disconnect    *)
(***************************************************************************)

\* The Connect and Disconnect calls made, the maps GetTools returned and
\* kept, the changes a caller makes to a map it was returned.
MaxWrites == 2
MaxViews == 2
MaxEdits == 1

\* The configured servers and the tools each one lists.
SnapServers == {"A", "B"}
Listing(serverID) == IF serverID = "A" THEN {"echo", "add"} ELSE {"echo"}

\* An entry of m.tools: its key and the serverID of its MCPTool.
Entry(serverID, name) == [key |-> LocalName(serverID, name), serverID |-> serverID]
EntriesOf(serverID) == {Entry(serverID, name) : name \in Listing(serverID)}

IdleWriter == [pc |-> "idle", op |-> "none", id |-> "", del |-> {}, add |-> {}]
IdleReader == [pc |-> "idle", op |-> "none", copy |-> {}]

\* NewMCPClients: empty maps, nobody in a method.
SnapNew ==
  [writer |-> FALSE, readers |-> 0, sess |-> {}, catalog |-> {},
   w |-> IdleWriter, writes |-> 0, r |-> IdleReader, views |-> <<>>]

SnapRest == snap = SnapNew

\* ConnectStdio or Disconnect is called and arrives at m.mu.Lock().
WriterCall ==
  /\ snap.w.pc = "idle"
  /\ snap.writes < MaxWrites
  /\ \E op \in {"ConnectStdio", "Disconnect"}, id \in SnapServers :
       snap' = [snap EXCEPT !.writes = @ + 1,
                            !.w = [IdleWriter EXCEPT !.pc = "waiting", !.op = op, !.id = id]]
  /\ UNCHANGED <<memVars, mgrVars, stdioVars, runVars, execVars, lockVars, sse, api, sig>>

\* m.mu.Lock() returns: no writer and no reader. The work ahead: with a
\* session for the id, disconnectLocked deletes its entries one by one;
\* ConnectStdio then starts the session and, if tools/list succeeds,
\* loadToolsLocked adds the listed tools one by one.
WriterLock ==
  /\ snap.w.pc = "waiting"
  /\ ~snap.writer
  /\ snap.readers = 0
  /\ \E listed \in BOOLEAN :
       snap' = [snap EXCEPT
                  !.writer = TRUE,
                  !.w = [@ EXCEPT
                           !.pc = "locked",
                           !.del = IF snap.w.id \in snap.sess
                                     THEN {e \in snap.catalog : e.serverID = snap.w.id}
                                     ELSE {},
                           !.add = IF snap.w.op = "ConnectStdio" /\ listed
                                     THEN EntriesOf(snap.w.id) ELSE {}],
                  !.sess = IF snap.w.op = "ConnectStdio" /\ listed
                             THEN @ \cup {snap.w.id} ELSE @ \ {snap.w.id}]
  /\ UNCHANGED <<memVars, mgrVars, stdioVars, runVars, execVars, lockVars, sse, api, sig>>

\* disconnectLocked's loop: delete(m.tools, toolName).
WriterDelete ==
  /\ snap.w.pc = "locked"
  /\ \E e \in snap.w.del :
       snap' = [snap EXCEPT !.catalog = @ \ {e}, !.w.del = @ \ {e}]
  /\ UNCHANGED <<memVars, mgrVars, stdioVars, runVars, execVars, lockVars, sse, api, sig>>

\* loadToolsLocked's loop: m.tools[toolName] = mcpTool.
WriterAdd ==
  /\ snap.w.pc = "locked"
  /\ snap.w.del = {}
  /\ \E e \in snap.w.add :
       snap' = [snap EXCEPT !.catalog = @ \cup {e}, !.w.add = @ \ {e}]
  /\ UNCHANGED <<memVars, mgrVars, stdioVars, runVars, execVars, lockVars, sse, api, sig>>

\* The deferred m.mu.Unlock().
WriterUnlock ==
  /\ snap.w.pc = "locked"
  /\ snap.w.del = {}
  /\ snap.w.add = {}
  /\ snap' = [snap EXCEPT !.writer = FALSE, !.w = IdleWriter]
  /\ UNCHANGED <<memVars, mgrVars, stdioVars, runVars, execVars, lockVars, sse, api, sig>>

\* GetTools or GetTool is called and arrives at m.mu.RLock().
ReaderCall ==
  /\ snap.r.pc = "idle"
  /\ Len(snap.views) < MaxViews
  /\ \E op \in {"GetTools", "GetTool"} :
       snap' = [snap EXCEPT !.r = [IdleReader EXCEPT !.pc = "waiting", !.op = op]]
  /\ UNCHANGED <<memVars, mgrVars, stdioVars, runVars, execVars, lockVars, sse, api, sig>>

\* An RLock that returns whoever holds the lock.
ReadLockAlways(writer) == TRUE

\* m.mu.RLock() returns when no writer holds the lock.
ReadLockFree(writer) == ~writer

ReaderLock ==
  /\ snap.r.pc = "waiting"
  /\ ReadLockFree(snap.writer)
  /\ snap' = [snap EXCEPT !.readers = @ + 1, !.r.pc = "locked"]
  /\ UNCHANGED <<memVars, mgrVars, stdioVars, runVars, execVars, lockVars, sse, api, sig>>

\* GetTools' loop over m.tools: tools[k] = v for an entry not yet copied.
ReaderCopy ==
  /\ snap.r.pc = "locked"
  /\ snap.r.op = "GetTools"
  /\ \E e \in snap.catalog \ snap.r.copy :
       snap' = [snap EXCEPT !.r.copy = @ \cup {e}]
  /\ UNCHANGED <<memVars, mgrVars, stdioVars, runVars, execVars, lockVars, sse, api, sig>>

\* What GetTools returns: the map it made and filled, not m.tools itself.
\* What was returned is kept beside what the caller's map holds now.
GetToolsResult(copy) ==
  [alias |-> FALSE, returned |-> copy, content |-> copy, edits |-> 0]

\* The deferred m.mu.RUnlock(): GetTools returns its map once the loop has
\* been through m.tools; GetTool returns what its one lookup found.
ReaderReturn ==
  /\ snap.r.pc = "locked"
  /\ snap.r.op = "GetTools" => snap.catalog \subseteq snap.r.copy
  /\ snap' = [snap EXCEPT
                !.readers = @ - 1,
                !.r = IdleReader,
                !.views = IF snap.r.op = "GetTools"
                            THEN Append(@, GetToolsResult(snap.r.copy)) ELSE @]
  /\ UNCHANGED <<memVars, mgrVars, stdioVars, runVars, execVars, lockVars, sse, api, sig>>

\* What a returned map holds now.
ViewContent(s, i) == IF s.views[i].alias THEN s.catalog ELSE s.views[i].content

\* The caller of GetTools deletes an entry from the map it was returned.
ViewEdit ==
  /\ \E i \in DOMAIN snap.views :
       /\ snap.views[i].edits < MaxEdits
       /\ \E e \in ViewContent(snap, i) :
            snap' = IF snap.views[i].alias
                      THEN [snap EXCEPT !.catalog = @ \ {e}, !.views[i].edits = @ + 1]
                      ELSE [snap EXCEPT !.views[i].content = @ \ {e},
                                        !.views[i].edits = @ + 1]
  /\ UNCHANGED <<memVars, mgrVars, stdioVars, runVars, execVars, lockVars, sse, api, sig>>

SnapNext ==
  \/ WriterCall
  \/ WriterLock
  \/ WriterDelete
  \/ WriterAdd
  \/ WriterUnlock
  \/ ReaderCall
  \/ ReaderLock
  \/ ReaderCopy
  \/ ReaderReturn
  \/ ViewEdit

(***************************************************************************)
(* Specifications                                                          *)
(***************************************************************************)
InitMemory == MemInit /\ MgrRest /\ StdioRest /\ RunRest /\ ExecRest /\ LockRest /\ SSERest /\ ApiRest /\ SigRest /\ SnapRest
SpecMemory == InitMemory /\ [][MemNext]_vars

InitMgr == MemRest /\ MgrRest /\ StdioRest /\ RunRest /\ ExecRest /\ LockRest /\ SSERest /\ ApiRest /\ SigRest /\ SnapRest
SpecMgr == InitMgr /\ [][MgrNext]_vars

InitClose == MemRest /\ MgrRest /\ StdioRest /\ RunRest /\ ExecRest /\ LockRest /\ SSERest /\ ApiRest /\ SigRest /\ SnapRest
SpecClose == InitClose /\ [][CloseNext]_vars

InitStdio == MemRest /\ MgrRest /\ StdioRest /\ RunRest /\ ExecRest /\ LockRest /\ SSERest /\ ApiRest /\ SigRest /\ SnapRest
SpecStdio == InitStdio /\ [][StdioNext]_vars

InitShutdown == MemRest /\ MgrRest /\ StdioRest /\ RunRest /\ ExecRest /\ LockRest /\ SSERest /\ ApiRest /\ SigRest /\ SnapRest
SpecShutdown == InitShutdown /\ [][ShutdownNext]_vars

\* Run is sequential code: as long as every model call and every tool call
\* returns, its next statement is executed.
RunProgress ==
  \/ RunStart
  \/ RunCancelled
  \/ RunModelFails
  \/ RunStep
  \/ RunLoopEnd
  \/ DeferSetState
  \/ DeferCleanup

InitExec == MemRest /\ MgrRest /\ StdioRest /\ RunRest /\ ExecInit /\ LockRest /\ SSERest /\ ApiRest /\ SigRest /\ SnapRest
SpecExec == InitExec /\ [][ExecNext]_vars

InitLock == MemRest /\ MgrRest /\ StdioRest /\ RunRest /\ ExecRest /\ LockRest /\ SSERest /\ ApiRest /\ SigRest /\ SnapRest
SpecLock == InitLock /\ [][LockNext]_vars

InitSSE == MemRest /\ MgrRest /\ StdioRest /\ RunRest /\ ExecRest /\ LockRest /\ SSEInit /\ ApiRest /\ SigRest /\ SnapRest
SpecSSE == InitSSE /\ [][SSENext]_vars

InitRun == MemRest /\ MgrRest /\ StdioRest /\ RunInit /\ ExecRest /\ LockRest /\ SSERest /\ ApiRest /\ SigRest /\ SnapRest
SpecRun == InitRun /\ [][RunNext]_vars
\* One run, and then a second call of Run on the same agent.
RerunNext == RunNext \/ RunAgain
SpecRerun == InitRun /\ [][RerunNext]_vars

InitCloseWait == MemRest /\ MgrRest /\ StdioRest /\ RunRest /\ ExecRest /\ LockRest /\ SSERest /\ ApiRest /\ SigRest /\ SnapRest
SpecCloseWait == InitCloseWait /\ [][CloseWaitNext]_vars /\ CloseWaitProgress

InitSignal == MemRest /\ MgrRest /\ StdioRest /\ RunRest /\ ExecRest /\ LockRest /\ SSERest /\ ApiRest /\ SigRest /\ SnapRest
SpecSignal == InitSignal /\ [][SignalNext]_vars /\ HandlerProgress

InitSnap == MemRest /\ MgrRest /\ StdioRest /\ RunRest /\ ExecRest /\ LockRest /\ SSERest /\ ApiRest /\ SigRest /\ SnapRest
SpecSnap == InitSnap /\ [][SnapNext]_vars

InitApi == MemRest /\ MgrRest /\ StdioRest /\ ApiRunInit /\ ExecRest /\ LockRest /\ SSERest /\ ApiRest /\ SigRest /\ SnapRest
SpecApi == InitApi /\ [][ApiNext]_vars

SpecRunFair == InitRun /\ [][RunNext]_vars /\ WF_vars(RunProgress)

(***************************************************************************)
(* Properties                                                              *)
(***************************************************************************)

\* C1: the memory never holds more than MaxMessages messages, and what it
\* holds is always the last MaxMessages messages appended (all of them while
\* fewer were appended), in the order they were appended.
C1_MemoryBounded ==
  /\ Len(Messages) <= MaxMessages
  /\ Len(appended) <= MaxMessages => Messages = appended
  /\ Len(appended) > MaxMessages =>
       /\ Len(Messages) = MaxMessages
       /\ \A i \in 1..MaxMessages :
            Messages[i] = appended[Len(appended) - MaxMessages + i]

\* C1 witness: more messages were appended than fit, and the oldest is gone.
C1_Witness ==
  /\ Len(appended) > MaxMessages
  /\ MaxMessages = 2
  /\ Messages = <<NumberedMessage(Len(appended) - 1), NumberedMessage(Len(appended))>>
  /\ Messages[1] # appended[1]

\* What C6 promises of a finished InitializeFromConfig call: every declared
\* server was attempted, the call returned nil, the servers that connected are
\* registered, and on a manager that held no session before the call the
\* registered sessions are exactly the N-K servers that did not fail.
InitVisitedAll ==
  /\ initLog.attempted = initLog.declared
  /\ initLog.result = "nil"
  /\ (initLog.declared \ initLog.failed) \subseteq DOMAIN sessions
  /\ initLog.before = {} =>
       /\ DOMAIN sessions = initLog.declared \ initLog.failed
       /\ Cardinality(DOMAIN sessions) =
            Cardinality(initLog.declared) - Cardinality(initLog.failed)

\* C6 as stated: whenever InitializeFromConfig has finished and ctx is not
\* cancelled, it attempted every declared server, registered exactly the
\* N-K that connected, and returned nil.
C6_Original == (initPc = "done" /\ ~ctxCancelled) => InitVisitedAll

\* C6 amended: the same, for a configuration whose Enabled flag is set (with
\* Enabled false the call returns nil without visiting any server).
C6_InitVisitsAllWhenEnabled ==
  (initPc = "done" /\ ~ctxCancelled /\ initLog.enabled) => InitVisitedAll

\* C6 witness: three declared servers, one failed, the other two registered.
C6_Witness ==
  /\ initPc = "done" /\ ~ctxCancelled /\ initLog.enabled
  /\ initLog.before = {}
  /\ Cardinality(initLog.declared) = 3
  /\ Cardinality(initLog.failed) = 1
  /\ Cardinality(DOMAIN sessions) = 2

\* C7: every tool a currently connected server listed is registered under
\* its local name, bound to that server and to that tool (no registration
\* overwrote it).
C7_CollisionSafe ==
  \A id \in DOMAIN sessions :
    \A i \in 1..Len(discovered[id]) :
      LET n == LocalName(id, discovered[id][i])
      IN  /\ n \in DOMAIN tools
          /\ tools[n].serverID = id
          /\ tools[n].originalName = discovered[id][i]

\* C8: after an InitializeFromConfig in which the declared servers A and B
\* both connected and both listed "echo", the tools map holds mcp_A_echo and
\* mcp_B_echo, each bound to its own server's session and to the original
\* name "echo", and holds no entry named "echo".
C8_EchoOnBothServers ==
  ( /\ initPc = "done"
    /\ {"A", "B"} \subseteq (initLog.attempted \ initLog.failed)
    /\ \A id \in {"A", "B"} : \E i \in 1..Len(discovered[id]) : discovered[id][i] = "echo" )
  => /\ {"mcp_A_echo", "mcp_B_echo"} \subseteq DOMAIN tools
     /\ "echo" \notin DOMAIN tools
     /\ \A id \in {"A", "B"} :
          LET t == tools["mcp_" \o id \o "_echo"]
          IN  /\ t.serverID = id
              /\ t.session = sessions[id]
              /\ t.originalName = "echo"

\* C8 witness: such a call has finished.
C8_Witness ==
  /\ initPc = "done"
  /\ initLog.declared = {"A", "B"}
  /\ initLog.failed = {}
  /\ discovered = [id \in {"A", "B"} |-> <<"echo">>]
  /\ DOMAIN tools = {"mcp_A_echo", "mcp_B_echo"}

\* C9: a Disconnect(X) leaves no session of X and no adapter whose server is
\* X, closes X's session once, and leaves every other server's adapters and
\* session as they were (unchanged, and not closed).
C9_DisconnectFrame ==
  [][ lastOp'.op = "Disconnect" =>
        LET X == lastOp'.id
        IN  /\ X \notin DOMAIN sessions'
            /\ \A n \in DOMAIN tools' : tools'[n].serverID # X
            /\ DOMAIN tools' \subseteq DOMAIN tools
            /\ \A n \in DOMAIN tools :
                 tools[n].serverID # X => (n \in DOMAIN tools' /\ tools'[n] = tools[n])
            /\ DOMAIN sessions' = DOMAIN sessions \ {X}
            /\ \A id \in DOMAIN sessions' : sessions'[id] = sessions[id]
            /\ \A o \in DOMAIN closeCalls :
                 closeCalls'[o] =
                   IF X \in DOMAIN sessions /\ o = sessions[X]
                     THEN closeCalls[o] + 1 ELSE closeCalls[o] ]_vars

\* C9 witness: Disconnect("A") removed A's adapters and closed A's session
\* while B's session and adapter stayed.
C9_Witness ==
  /\ lastOp.op = "Disconnect" /\ lastOp.id = "A" /\ lastOp.removed > 0
  /\ DOMAIN sessions = {"B"}
  /\ "mcp_B_echo" \in DOMAIN tools
  /\ closeCalls[sessions["B"]] = 0
  /\ \E o \in DOMAIN closeCalls : closeCalls[o] = 1

\* C10: a Disconnect of an identity that has no session returns nil, closes
\* no session and leaves the sessions map and the tools map as they were.
C10_DisconnectUnknownNoOp ==
  [][ (lastOp'.op = "Disconnect" /\ lastOp'.id \notin DOMAIN sessions) =>
        /\ lastOp'.err = FALSE
        /\ sessions' = sessions
        /\ tools' = tools
        /\ closeCalls' = closeCalls ]_vars

\* C10 witness: Disconnect("B") on a manager whose only session ever
\* created is A's, which is still open and registered.
C10_Witness ==
  /\ lastOp.op = "Disconnect" /\ lastOp.id = "B" /\ ~lastOp.err
  /\ nextSession = 2
  /\ DOMAIN sessions = {"A"}
  /\ closeCalls[1] = 0
  /\ tools # EmptyMap

\* C5: every ListTools / CallTool call that returned a response returned the
\* response that carries the id of the request it sent.
C5_ResponseMatchesRequest ==
  \A res \in returned : res.kind = "line" => res.resp = res.req

\* C2: a finished run in which nothing triggered termination (no reply with a
\* completion marker or a Terminate call, no duplicate reply, no model
\* failure, no cancellation seen by the loop) made exactly MaxSteps steps
\* and exactly MaxSteps model calls, logged the step-limit warning and
\* returned nil.
C2_ExactlyMaxSteps ==
  (runPc = "done" /\ triggers = {}) =>
    /\ CurrentStep = MaxSteps
    /\ llmCalls = MaxSteps
    /\ warned
    /\ runResult = "nil"

\* C2 witness: a Manus run with the largest step budget that ran out of
\* steps while its replies carried text and tool calls.
C2_Witness ==
  /\ runPc = "done"
  /\ agentKind = "Manus"
  /\ triggers = {}
  /\ MaxSteps = MaxStepsBound
  /\ llmCalls = MaxStepsBound
  /\ runResult = "nil"
  /\ \E i \in DOMAIN Messages : Messages[i].role = "tool"
  /\ \E i \in DOMAIN Messages :
       Messages[i].role = "assistant" /\ Messages[i].content = Some("x")

\* The assistant replies in memory, oldest first.
AssistantReplies == SelectSeq(Messages, LAMBDA m : m.role = "assistant")

\* The last reply has a text, and at least DuplicateThreshold of the last
\* DuplicateWindow replies have that same text.
RepeatedReply ==
  LET lastK == GetRecentMessages(AssistantReplies, DuplicateWindow)
  IN  /\ lastK # <<>>
      /\ lastK[Len(lastK)].content # Nil
      /\ Cardinality({i \in DOMAIN lastK : lastK[i].content = lastK[Len(lastK)].content})
           >= DuplicateThreshold

\* C3: a finished run whose last reply repeated the same text
\* DuplicateThreshold times within its last replies, with DuplicateThreshold
\* smaller than MaxSteps, stopped within MaxSteps steps and returned a
\* stuck-loop error.
C3_StuckLoopError ==
  (runPc = "done" /\ DuplicateThreshold < MaxSteps /\ RepeatedReply) =>
    /\ CurrentStep <= MaxSteps
    /\ runResult = "StuckLoopError"

\* C4: a finished run during which ctx was cancelled while a CallTool on an
\* MCP session was in flight returned the cancellation error, and Close was
\* called exactly once on that session.
C4_CancelInFlight ==
  (runPc = "done" /\ cancelInFlight # 0) =>
    /\ runResult = "cancelled"
    /\ closeCalls[cancelInFlight] = 1

\* The session objects created so far, and those registered in the map.
SessionObjects == DOMAIN closeCalls
RegisteredSessions == {sessions[id] : id \in DOMAIN sessions}

\* Every registered session is open and filed under one identity only, every
\* session object that is not registered was closed once, and every adapter
\* belongs to the session registered for its server.
SessionsConsistent ==
  /\ \A id1, id2 \in DOMAIN sessions : sessions[id1] = sessions[id2] => id1 = id2
  /\ \A s \in SessionObjects :
       closeCalls[s] = IF s \in RegisteredSessions THEN 0 ELSE 1
  /\ \A n \in DOMAIN tools :
       /\ tools[n].serverID \in DOMAIN sessions
       /\ sessions[tools[n].serverID] = tools[n].session

\* In one step, every session that stops being the session of its identity
\* is closed by that step and has no adapter left after it.
ReplacedIsTornDown ==
  \A id \in DOMAIN sessions :
    (id \notin DOMAIN sessions' \/ sessions'[id] # sessions[id]) =>
      /\ closeCalls'[sessions[id]] = closeCalls[sessions[id]] + 1
      /\ \A n \in DOMAIN tools' : tools'[n].session # sessions[id]

\* C11: an identity has at most one session: a Connect for an identity that
\* has a session closes the old session and removes its adapters, so a
\* replaced session is never left registered, un-closed or with adapters.
C11_OneSessionPerIdentity == [](SessionsConsistent) /\ [][ReplacedIsTornDown]_vars

\* C11 witness: a ConnectStdio replaced the session of its identity: the old
\* session object is closed and the identity has the new one with its tools.
C11_Witness ==
  /\ lastOp.op = "ConnectStdio"
  /\ lastOp.id \in DOMAIN sessions
  /\ sessions[lastOp.id] = 2
  /\ closeCalls = <<1, 0>>
  /\ lastOp.removed > 0
  /\ \E n \in DOMAIN tools : tools[n].session = 2

\* A step that is a ConnectSSE / ConnectStdio call which created a session
\* object and returned an error: the session's Initialize succeeded and its
\* tool discovery failed or was cancelled.
DiscoveryFailed ==
  /\ lastOp'.op \in {"ConnectStdio", "ConnectSSE"}
  /\ nextSession' = nextSession + 1
  /\ lastOp'.err

\* C12: a Connect whose tool discovery fails is rolled back: the new session
\* is closed, it is not in the sessions map, the identity has no session and
\* no adapter, and the call returns an error.
C12_DiscoveryRollback ==
  [][DiscoveryFailed =>
       /\ closeCalls'[nextSession] = 1
       /\ nextSession \notin {sessions'[id] : id \in DOMAIN sessions'}
       /\ lastOp'.id \notin DOMAIN sessions'
       /\ \A n \in DOMAIN tools' :
            tools'[n].serverID # lastOp'.id /\ tools'[n].session # nextSession
       /\ lastOp'.err]_vars

\* C12 witness: a ConnectSSE for an identity that had a session with tools
\* failed in discovery: both session objects are closed, nothing is left.
C12_Witness ==
  /\ lastOp.op = "ConnectSSE"
  /\ lastOp.err
  /\ lastOp.removed > 0
  /\ nextSession = 3
  /\ closeCalls = <<1, 1>>
  /\ sessions = EmptyMap
  /\ tools = EmptyMap

\* The sessions Close is about to disconnect whose shutdown goes wrong.
FailingCloses == {sessions[id] : id \in DOMAIN sessions} \cap badSessions

\* C13: MCPClients.Close disconnects every server: afterwards the sessions
\* map and the tools map are empty and every session object was closed; and
\* it returns an error exactly when the Close of some session went wrong.
C13_CloseReportsFailures ==
  [][lastOp'.op = "Close" =>
       /\ sessions' = EmptyMap
       /\ tools' = EmptyMap
       /\ \A s \in DOMAIN closeCalls' : closeCalls'[s] = 1
       /\ lastOp'.err <=> FailingCloses # {}]_vars

\* C14: Execute turns the single text part "42" into exactly "42" and an
\* empty content list into the no-content text, and never returns the empty
\* string.
C14_FlattenExact ==
  execOutput # Nil =>
    /\ execParts = <<[type |-> "text", text |-> "42"]>> => execOutput = Some("42")
    /\ execParts = <<>> => execOutput = Some(NoContentText)
    /\ execOutput # Some("")

\* C15: a Close of a session that is closed already returns nil and does
\* nothing: stdin is not closed again, the child is not waited for or killed.
C15_CloseIdempotent ==
  [][(Len(closeResults') = Len(closeResults) + 1 /\ stClosed) =>
       /\ closeResults'[Len(closeResults')] = "nil"
       /\ shutdownLog' = shutdownLog
       /\ childUp' = childUp
       /\ stClosed']_vars

\* C15 witness: two Close calls returned nil, and stdin was closed and the
\* child killed once.
C15_Witness ==
  /\ closeResults = <<"nil", "nil">>
  /\ shutdownLog = <<"stdinClose", "graceElapsed", "kill">>

\* In the log of shutdown events, every kill of the child is Close's kill,
\* with the close of stdin and the elapsed grace period before it.
KillsAreLastPhase ==
  \A i \in DOMAIN shutdownLog :
    /\ shutdownLog[i] # "ctxKill"
    /\ shutdownLog[i] = "kill" =>
         /\ i >= 3
         /\ shutdownLog[i - 1] = "graceElapsed"
         /\ shutdownLog[i - 2] = "stdinClose"

\* C16: the child is killed only as the last phase of Close, after stdin was
\* closed and the grace period elapsed without the child exiting; nothing
\* else, the end of Initialize's context included, kills it.
C16_KillOnlyLastPhase == KillsAreLastPhase

\* C17: within one run the status only moves IDLE -> RUNNING -> FINISHED or
\* ERROR: once it is FINISHED or ERROR it does not change again, and when
\* Run returns it is ERROR if the model call failed and FINISHED otherwise.
C17_StatusMonotonic ==
  [][/\ State \in {AgentStateFinished, AgentStateError} => State' = State
     /\ (State = AgentStateIdle /\ State' # State) => State' = AgentStateRunning
     /\ (State = AgentStateRunning /\ State' # State) =>
          State' \in {AgentStateFinished, AgentStateError}
     /\ (runPc # "done" /\ runPc' = "done") =>
          State' = IF "failure" \in triggers THEN AgentStateError
                   ELSE AgentStateFinished]_vars

\* C18: when Manus.Run has returned, on whatever exit path, the manager was
\* closed: no session is registered, no adapter is left and every session
\* connected during the run was closed.
C18_CleanupGuaranteed ==
  (runPc = "done" /\ agentKind = "Manus") =>
    /\ sessions = EmptyMap
    /\ tools = EmptyMap
    /\ \A s \in DOMAIN closeCalls : closeCalls[s] = 1

\* C18 witness: a run that connected a server and was cancelled has returned
\* with the server's session closed.
C18_Witness ==
  /\ runPc = "done"
  /\ agentKind = "Manus"
  /\ runResult = "cancelled"
  /\ LocalName("A", "echo") \in DOMAIN registry
  /\ closeCalls = <<1>>
  /\ sessions = EmptyMap

\* s is an initial segment of t.
IsPrefix(s, t) == Len(s) <= Len(t) /\ SubSeq(t, 1, Len(s)) = s

HasMarker(m) ==
  /\ m.content # Nil
  /\ \E marker \in {MarkerRenwuWancheng, MarkerTaskCompleted, MarkerWancheng,
                    MarkerCompleted, MarkerTerminate} : contains(m.content[1], marker)

\* The reply carries a call of the Terminate tool.
CallsTerminate(m) == \E i \in DOMAIN m.toolCalls : m.toolCalls[i].name = "Terminate"

\* C20: a run that returned nil before its steps ran out did so on a reply
\* with a completion marker or a Terminate call; and every reply with a
\* completion marker or a Terminate call is the last reply of its run, no
\* model call follows it, and the run returns nil.
C20_CompletionExact ==
  LET n == Len(AssistantReplies)
  IN  /\ (runPc = "done" /\ runResult = "nil" /\ CurrentStep < MaxSteps) =>
           /\ n > 0
           /\ HasMarker(AssistantReplies[n]) \/ CallsTerminate(AssistantReplies[n])
      /\ \A i \in 1..n :
           (HasMarker(AssistantReplies[i]) \/ CallsTerminate(AssistantReplies[i])) =>
             /\ i = n
             /\ llmCalls = n
             /\ runPc = "done" => runResult = "nil"

\* The tool messages in memory.
ToolMessages == SelectSeq(Messages, LAMBDA m : m.role = "tool")

\* C21: no tool message in memory carries the text of a nil result: the
\* message added for a call that failed (tool not registered, or Execute
\* returned an error) reports the failure.
C21_FailureReported ==
  \A i \in DOMAIN ToolMessages : ToolMessages[i].content # Some("<nil>")

\* C22: once a tool call of the run has failed in the transport (its
\* session closed or its pipe broken), the run has left the step loop and
\* its result is an error: no further step follows and Run does not return
\* nil.
C22_TransportFailureEndsRun ==
  "transport" \in triggers => (runPc # "loop" /\ runResult \notin {"none", "nil"})

\* C23: from a state at the top of a step in which ctx is cancelled or the
\* agent context is done, the run makes no model call, executes no tool,
\* adds nothing to memory and leaves CurrentStep alone; the only step it
\* takes is the return of the cancellation error.
C23_CancelCheckedEachStep ==
  [][(/\ runPc = "loop"
      /\ CurrentStep < MaxSteps
      /\ ctxCancelled \/ agentCtx = "done")
       => /\ llmCalls' = llmCalls
          /\ CurrentStep' = CurrentStep
          /\ Messages' = Messages
          /\ runPc' # runPc => runResult' = "cancelled"]_vars

\* C23 witness: a run cancelled between its first and its second step has
\* returned the cancellation error after one step and one model call.
C23_Witness ==
  /\ runPc = "done"
  /\ runResult = "cancelled"
  /\ cancelInFlight = 0
  /\ MaxSteps = 2
  /\ CurrentStep = 1
  /\ llmCalls = 1

\* C24: a step that adds to memory adds the assistant reply followed by
\* exactly one tool message per tool call of the reply, in the order of the
\* calls, each with the name and the id of its call.
C24_ToolCallsInOrder ==
  [][Messages' # Messages /\ llmCalls' # llmCalls =>
       LET n == Len(Messages)
           reply == Messages'[n + 1]
           calls == reply.toolCalls
       IN  /\ SubSeq(Messages', 1, n) = Messages
           /\ reply.role = "assistant"
           /\ Len(Messages') = n + 1 + Len(calls)
           /\ \A k \in DOMAIN calls :
                /\ Messages'[n + 1 + k].role = "tool"
                /\ Messages'[n + 1 + k].toolCallID = Some(calls[k].id)
                /\ Messages'[n + 1 + k].name = Some(calls[k].name)]_vars

\* C24 witness: memory ends with a reply that called the server's tool and
\* then Terminate, the first call failing, followed by their two tool
\* messages in that order.
C24_Witness ==
  /\ Len(Messages) >= 3
  /\ LET n == Len(Messages)
     IN  /\ Messages[n - 2].role = "assistant"
         /\ Len(Messages[n - 2].toolCalls) = 2
         /\ Messages[n - 2].toolCalls[1].name = LocalName("A", "echo")
         /\ Messages[n - 2].toolCalls[2].name = "Terminate"
         /\ Messages[n - 1].toolCallID = Some(1)
         /\ Messages[n - 1].content = Some("<nil>")
         /\ Messages[n].toolCallID = Some(2)
         /\ Messages[n].content = Some("out")

\* C25: the text executeTool passes on is at most MaxObserve long, and it
\* is the tool's result unchanged if that is at most MaxObserve long.
C25_ObserveBounded ==
  observed # Nil =>
    /\ Len(observed[1]) <= MaxObserve
    /\ Len(execOutput[1]) <= MaxObserve => observed = execOutput

\* How many of the last DuplicateWindow assistant replies before the last
\* one have the text of the last one.
EarlierMatches ==
  LET n == Len(AssistantReplies)
      earlier == GetRecentMessages(SubSeq(AssistantReplies, 1, n - 1), DuplicateWindow)
  IN  Cardinality({i \in DOMAIN earlier : earlier[i].content = AssistantReplies[n].content})

\* C26: a run of the base agent that was stopped on a repeated reply (and
\* not on a completion marker) was stopped on a reply whose text is the text
\* of at least DuplicateThreshold earlier assistant replies.
C26_DuplicateCountsEarlierReplies ==
  (agentKind = "Agent" /\ "duplicate" \in triggers /\ "completion" \notin triggers) =>
    EarlierMatches >= DuplicateThreshold

\* What C27 promises of a step of InitializeFromConfig taken with ctx
\* cancelled: no server is attempted and the call returns the cancellation
\* error.
InitStepSeesCancel ==
  /\ initLog'.attempted = initLog.attempted
  /\ initLog'.result = "cancelled"
  /\ initPc' = "done"

\* C27 as stated: every step of InitializeFromConfig (its start, or an
\* iteration of its loop) taken with ctx cancelled attempts no server and
\* returns the cancellation error.
C27_Original ==
  [][(ctxCancelled /\ initPc \in {"idle", "loop"} /\ initLog' # initLog)
       => InitStepSeesCancel]_vars

\* C27 amended: the same, for a configuration whose Enabled flag is set (with
\* Enabled false the call returns nil before it looks at ctx).
C27_CancelStopsInit ==
  [][(ctxCancelled /\ initPc \in {"idle", "loop"} /\ initLog' # initLog /\ initLog'.enabled)
       => InitStepSeesCancel]_vars

\* C27 witness: a call cancelled in the middle of its batch has returned the
\* cancellation error with one server attempted and another left alone.
C27_Witness ==
  /\ initPc = "done"
  /\ initLog.enabled
  /\ initLog.result = "cancelled"
  /\ initLog.attempted # {}
  /\ initLog.attempted # initLog.declared

\* Goroutine g is reading or writing m.sessions or m.tools.
UsesMaps(g) == callers[g].pc \in {"locked", "initLog"}

\* Goroutine g holds m.mu, exclusively or shared.
HoldsLock(g) == mu.writer = g \/ g \in mu.readers

\* C28: a goroutine that is reading or writing the session map or the
\* adapter map holds the manager lock, so none does so without the lock
\* while another one is inside a Connect, a Disconnect or a Close.
C28_MapsUnderLock ==
  /\ \A g \in Goroutines : UsesMaps(g) => HoldsLock(g)
  /\ \A g, h \in Goroutines :
       (g # h /\ UsesMaps(g) /\ mu.writer = h) => HoldsLock(g)

\* C29: every list or call request an SSE session has sent was sent after
\* an Initialize of the session that succeeded.
C29_ProbeBeforeTraffic ==
  \A i \in DOMAIN sse.sent :
    sse.sent[i].kind \in {"list", "call"} => sse.sent[i].init = "ok"

\* C30: a call of Run on an agent whose Run has returned starts a run: the
\* agent is in its step loop again with CurrentStep at 0.
C30_RerunStartsFresh ==
  [][(runPc = "done" /\ runPc' # "done") => (runPc' = "loop" /\ CurrentStep' = 0)]_vars

\* The system messages held in msgs.
SystemCount(msgs) == Cardinality({i \in DOMAIN msgs : msgs[i].role = "system"})

\* C31: on entering Running the system prompt goes to memory exactly when
\* memory is empty. Checked here in its second half: when Run starts on a
\* memory that already holds a message (one added by UpdateMemory or
\* ProcessMessage), memory gains no system message.
C31_SystemPromptOnlyOnEmptyMemory ==
  [][(runPc = "idle" /\ runPc' = "loop" /\ Messages # <<>>)
       => SystemCount(Messages') = SystemCount(Messages)]_vars

\* A step of ProcessMessage: the only call that leaves its name in api and
\* is not the start of Run (a rejected call repeated changes nothing).
ProcessMessageStep == api'.op = "ProcessMessage" /\ runPc' = runPc

\* C37: ProcessMessage is accepted only in status Idle or Running: called in
\* status Finished or Error it returns an error and leaves memory and status
\* as they were, and it makes no model call.
C37_RejectedOutsideIdleRunning ==
  [][(ProcessMessageStep /\ State \in {AgentStateFinished, AgentStateError})
       => /\ api'.result = "rejected"
          /\ UNCHANGED <<Messages, State, llmCalls>>]_vars

\* A ProcessMessage call was rejected in status Finished or Error.
C37_Witness ==
  /\ api = [op |-> "ProcessMessage", result |-> "rejected"]
  /\ State \in {AgentStateFinished, AgentStateError}

\* C38: a ProcessMessage whose model call fails sets the status to Error and
\* adds the incoming message and nothing else to memory; while the status is
\* Error every ProcessMessage is rejected and changes nothing.
C38_ModelFailureSetsError ==
  [][ProcessMessageStep
       => /\ api'.result = "modelError"
               => /\ State' = AgentStateError
                  /\ Len(Messages') = Len(Messages) + 1
                  /\ Messages'[Len(Messages')] = NewUserMessage("m")
                  /\ SubSeq(Messages', 1, Len(Messages)) = Messages
          /\ State = AgentStateError
               => /\ api'.result = "rejected"
                  /\ UNCHANGED <<Messages, State>>]_vars

\* A model call failed inside ProcessMessage, and a later call was rejected.
C38_Witness ==
  /\ api = [op |-> "ProcessMessage", result |-> "rejected"]
  /\ State = AgentStateError
  /\ llmCalls > 0
  /\ Messages # <<>>
  /\ Messages[Len(Messages)] = NewUserMessage("m")

\* C32: shutdown waits are bounded. Whenever a request is in flight on a
\* stdio session, a Close called on the session eventually returns, whether
\* or not the request's response ever arrives.
C32_CloseReturnsDespiteInFlight ==
  (\E c \in Callers : callPc[c] = "waiting") ~> (closeResults # <<>>)

\* C33: an adapter lives as long as its session. Every adapter that can be
\* resolved by name, through the manager's catalog or through the agent's
\* tool registry, is bound to a session that has not been closed.
C33_AdaptersEndWithSession ==
  /\ \A n \in DOMAIN tools : closeCalls[tools[n].session] = 0
  /\ \A n \in DOMAIN registry :
       registry[n].kind = "mcp" => closeCalls[registry[n].session] = 0

\* C34: in direct-run mode the first interrupt cancels the run context and
\* a second interrupt forces the process to exit: once two signals have been
\* delivered the process ends, by the handler's os.Exit(1) unless runDirect
\* has returned by itself.
C34_SecondInterruptForcesExit ==
  /\ (sig.delivered >= 1) ~> sig.ctxDone
  /\ (sig.delivered >= 2) ~> (sig.exit # "none")

\* For each server, entries holds all of the server's adapters or none.
Whole(entries) ==
  \A id \in SnapServers :
    LET mine == {e \in entries : e.serverID = id}
    IN  mine = {} \/ mine = EntriesOf(id)

\* C35: GetTools and GetTool read an atomic snapshot. While a reader is in
\* one of them the catalog holds, for each server, all of its adapters or
\* none, and so does every map GetTools returned; a returned map changes
\* only when its holder changes it, and that leaves the catalog as it was.
C35_SnapshotReads ==
  /\ [](/\ snap.readers > 0 => Whole(snap.catalog)
        /\ \A i \in DOMAIN snap.views : Whole(snap.views[i].returned))
  /\ [][\A i \in DOMAIN snap.views :
          IF snap'.views[i].edits = snap.views[i].edits
            THEN ViewContent(snap', i) = ViewContent(snap, i)
            ELSE snap'.catalog = snap.catalog]_vars

\* GetTools returned both adapters of A while B was not connected; later a
\* Disconnect emptied the catalog, and the returned map still holds them.
C35_Witness ==
  /\ snap.views # <<>>
  /\ snap.views[1].returned = EntriesOf("A")
  /\ ViewContent(snap, 1) = EntriesOf("A")
  /\ snap.catalog = {}
  /\ snap.writes = 2

\* C36: during Run the agent's own cancellation signal fires only when the
\* caller's context is cancelled (or in Cleanup, after the loop): a run whose
\* caller never cancels never returns a cancellation error, and its agent
\* context is not done before Cleanup.
C36_OnlyCallerCancels ==
  ~ctxCancelled =>
    /\ runResult # "cancelled"
    /\ runPc = "loop" => agentCtx # "done"

\* C39: termination is decided after the whole reply has been processed. In
\* a step whose reply holds a Terminate call, every call of the reply, those
\* listed after the Terminate call included, gets its tool message, and the
\* step ends the run with success whatever the Terminate call returned.
C39_TerminateAfterWholeReply ==
  [][(runPc = "loop" /\ Messages' # Messages /\ llmCalls' # llmCalls) =>
       LET n == Len(Messages)
           calls == Messages'[n + 1].toolCalls
       IN  (\E t \in DOMAIN calls : calls[t].name = "Terminate") =>
             /\ Len(Messages') = n + 1 + Len(calls)
             /\ \A k \in DOMAIN calls :
                  /\ Messages'[n + 1 + k].role = "tool"
                  /\ Messages'[n + 1 + k].toolCallID = Some(calls[k].id)
             /\ runPc' = "deferState"
             /\ runResult' = "nil"]_vars

\* A reply without a completion marker called Terminate and then the
\* server's tool; Terminate failed; both calls have their tool message and
\* the run has returned nil.
C39_Witness ==
  /\ runPc = "done"
  /\ runResult = "nil"
  /\ Len(Messages) >= 3
  /\ LET n == Len(Messages)
     IN  /\ Messages[n - 2].role = "assistant"
         /\ Messages[n - 2].content = Some("x")
         /\ Len(Messages[n - 2].toolCalls) = 2
         /\ Messages[n - 2].toolCalls[1].name = "Terminate"
         /\ Messages[n - 2].toolCalls[2].name = LocalName("A", "echo")
         /\ Messages[n - 1].toolCallID = Some(1)
         /\ Messages[n - 1].content = Some("<nil>")
         /\ Messages[n].role = "tool"
         /\ Messages[n].toolCallID = Some(2)

\* C40: a closed session serves no calls. After Close has returned on a
\* session, stdio or SSE, no Initialize, ListTools or CallTool on it sends
\* anything to the remote host: a closed stdio session has no request with
\* its child and no call waiting for a response, and no request of an SSE
\* session was sent after its Close.
C40_ClosedServesNoCalls ==
  /\ stClosed => (childInbox = {} /\ \A c \in Callers : callPc[c] = "idle")
  /\ \A i \in DOMAIN sse.sent : ~sse.sent[i].closed

====
